---- MODULE Spec2Model ----
(***************************************************************************)
(* Context analysis and agent orchestration subsystem of DevMind:          *)
(* PrivacyManager (src/core/PrivacyManager.ts), AgentOrchestrator          *)
(* (src/agents/AgentOrchestrator.ts), the agents' contract methods,        *)
(* DevMindManager.runAgent (src/core/DevMindManager.ts) and                *)
(* QwenLLMProvider.sendRequest / AuditTrail (src/llm/QwenLLMProvider.ts).  *)
(*                                                                         *)
(* Strings are modelled as sequences of lexemes.  A text is a sequence of  *)
(* tokens; each sensitive-data regular expression matches the tokens of    *)
(* its own kind, and a regular expression's lastIndex counts tokens.  A    *)
(* path is a sequence of atoms, so that String.startsWith is the prefix    *)
(* relation on sequences and String.includes is membership of an atom.     *)
(***************************************************************************)
EXTENDS Integers, Sequences, FiniteSets, TLC

VARIABLES
    mode,                \* PrivacyManager.mode
    excludedFiles,       \* PrivacyManager.excludedFiles
    excludedDirectories, \* PrivacyManager.excludedDirectories
    lastIndex,           \* lastIndex of each RegExp of PrivacyManager.sensitivePatterns
    lastEval,            \* observation: the latest gating evaluation under the current exclusion lists
    history,             \* AgentOrchestrator.executionHistory
    activeAgent,         \* AgentOrchestrator.activeAgent
    calls,               \* the executeAgent invocations (one record per call slot)
    chain,               \* the executeAgentChain invocation
    lastRun,             \* observation: what the latest DevMindManager.runAgent did
    agents,              \* AgentOrchestrator.agents: agent type -> operations its instance defines
    now,                 \* Date.now(), in milliseconds
    requestTimestamps,   \* QwenLLMProvider.requestTimestamps
    requestCount,        \* QwenLLMProvider.requestCount
    lastResponse,        \* observation: the latest QwenLLMProvider.sendRequest and its LLMResponse
    agentStatus,         \* the status field of the agent instances that keep one
    runs,                \* the execute invocations made on the agent instances directly
    agentLog,            \* observation: per agent, the durations of its finished execute calls
    callLog,             \* observation: the executeAgent calls entered and returned since the last clearHistory
    suggestion,          \* observation: the latest getAllAgentSuggestions call and what it returned
    synthesis,           \* observation: the latest reply an agent parsed and the AgentResult it built
    http,                \* the sendRequest invocation: its position, its HTTP attempts and its delays
    audit,               \* observation: the latest append to the audit log file and its outcome
    contextCache,        \* DevMindManager.contextCache: document uri -> context snapshot
    lastAnalysisTime,    \* DevMindManager.lastAnalysisTime
    documents,           \* the editor: the active document, the text version of each document
    pending,             \* the asynchronous operations the manager awaits: analyses and agent executions
    heap,                \* the ContextData objects, by reference
    lastContext,         \* observation: the latest getCurrentContext call and what it returned
    contextUpdates,      \* the contextUpdates of the result the chain's executeAgent call got from the agent
    attempted,           \* observation: the times at which sendRequest calls issued their HTTP attempts
    configuration        \* the 'devmind' section of the workspace settings, and the config the LLM provider holds

privVars == <<mode, excludedFiles, excludedDirectories, lastIndex, lastEval>>
orchVars == <<history, activeAgent, calls, chain, agents>>
mgrVars  == <<lastRun>>
llmVars  == <<now, requestTimestamps, requestCount, lastResponse>>
agentVars == <<agentStatus, runs, agentLog>>
obsVars  == <<callLog, suggestion, synthesis>>
cacheVars == <<contextCache, lastAnalysisTime, documents, pending, heap, lastContext>>
laterVars == <<http, audit, cacheVars, contextUpdates, attempted, configuration>>
vars == <<mode, excludedFiles, excludedDirectories, lastIndex, lastEval,
          history, activeAgent, calls, chain, agents, lastRun,
          now, requestTimestamps, requestCount, lastResponse,
          agentStatus, runs, agentLog, callLog, suggestion, synthesis, laterVars>>

None == "none"

(***************************************************************************)
(* Bounds of the model.                                                    *)
(***************************************************************************)
MaxHistory == 2
MaxChain == 2
MaxRequests == 1
MaxExecutions == 2
MaxCalls == 3
MaxLines == 3
MaxBlocks == 6
MaxEvents == 3
MaxTicks == 3
MaxTime == 2

(***************************************************************************)
(* PrivacyManager                                                          *)
(***************************************************************************)
STANDARD == "standard"
ENHANCED == "enhanced"
MAXIMUM == "maximum"
PrivacyMode == {STANDARD, ENHANCED, MAXIMUM}

\* strictness order of the three modes
ModeRank(m) == CASE m = STANDARD -> 0 [] m = ENHANCED -> 1 [] m = MAXIMUM -> 2

\* the kind of token each of the ten regular expressions matches, in list order
sensitivePatterns ==
    <<"key24", "apikey", "token", "secret", "password", "passwd",
      "credential", "email", "ssn", "card">>

NumPatterns == Len(sensitivePatterns)

\* RegExp.prototype.test of a regular expression with the g flag: the search
\* starts at lastIndex; a match leaves lastIndex at the end of the match, a
\* failure resets it to 0.
RegexTest(i, text, start) ==
    LET cands == {p \in (start + 1)..Len(text) : text[p] = sensitivePatterns[i]}
    IN  IF cands = {}
        THEN [found |-> FALSE, lastIndex |-> 0]
        ELSE [found |-> TRUE,
              lastIndex |-> CHOOSE p \in cands : \A q \in cands : p <= q]

\* Array.prototype.some over the patterns from index i on: stops at the first
\* pattern whose test returns true, leaving the later patterns untouched.
RECURSIVE SomePatternTest(_, _, _)
SomePatternTest(i, text, li) ==
    IF i > NumPatterns
    THEN [found |-> FALSE, li |-> li]
    ELSE LET r == RegexTest(i, text, li[i])
         IN  IF r.found
             THEN [found |-> TRUE, li |-> [li EXCEPT ![i] = r.lastIndex]]
             ELSE SomePatternTest(i + 1, text, [li EXCEPT ![i] = 0])

containsSensitiveData(text, li) == SomePatternTest(1, text, li)

\* String.prototype.startsWith
StartsWith(s, prefix) ==
    /\ Len(prefix) <= Len(s)
    /\ SubSeq(s, 1, Len(prefix)) = prefix

SeqIncludes(list, x) == \E k \in 1..Len(list) : list[k] = x

\* variant: only the file list is consulted
isExcludedFile_FilesOnly(filePath, files, dirs) ==
    SeqIncludes(files, filePath)

isExcludedFile(filePath, files, dirs) ==
    \/ SeqIncludes(files, filePath)
    \/ \E k \in 1..Len(dirs) : StartsWith(filePath, dirs[k])

\* String.prototype.toLowerCase on the atoms of a path
LowerAtom(a) ==
    CASE a = "SECRET" -> "secret"
      [] a = "Password" -> "password"
      [] a = "Issue:" -> "issue:"
      [] a = "Suggestion:" -> "suggestion:"
      [] a = "Fix:" -> "fix:"
      [] a = "Note:" -> "note:"
      [] OTHER -> a

toLowerCase(path) == [k \in 1..Len(path) |-> LowerAtom(path[k])]

\* the file-name veto of MAXIMUM mode
SensitiveFileName(path) ==
    LET lowerCaseFile == toLowerCase(path)
    IN  \/ SeqIncludes(lowerCaseFile, "secret")
        \/ SeqIncludes(lowerCaseFile, "password")
        \/ SeqIncludes(lowerCaseFile, "credential")
        \/ (Len(lowerCaseFile) > 0 /\ lowerCaseFile[Len(lowerCaseFile)] = ".env")

\* A falsy string (undefined or '') is the empty sequence.
Truthy(s) == s # <<>>

\* canProcessRequest(request); request.context.currentFile is <<>> when the
\* request has no context or no current file.  Returns the verdict and the
\* lastIndex values the evaluation leaves behind.
canProcessRequest(request, m, files, dirs, li) ==
    IF m = STANDARD THEN [ok |-> TRUE, li |-> li]
    ELSE LET s == IF Truthy(request.prompt)
                  THEN containsSensitiveData(request.prompt, li)
                  ELSE [found |-> FALSE, li |-> li]
         IN  IF s.found THEN [ok |-> FALSE, li |-> s.li]
             ELSE IF /\ m = MAXIMUM
                     /\ Truthy(request.currentFile)
                     /\ isExcludedFile(request.currentFile, files, dirs)
                  THEN [ok |-> FALSE, li |-> s.li]
                  ELSE [ok |-> TRUE, li |-> s.li]

\* canProcessContext(context)
canProcessContext(context, m, files, dirs, li) ==
    IF m = STANDARD THEN [ok |-> TRUE, li |-> li]
    ELSE IF Truthy(context.currentFile) /\ isExcludedFile(context.currentFile, files, dirs)
    THEN [ok |-> FALSE, li |-> li]
    ELSE LET s == IF Truthy(context.surroundingCode)
                  THEN containsSensitiveData(context.surroundingCode, li)
                  ELSE [found |-> FALSE, li |-> li]
         IN  IF s.found THEN [ok |-> FALSE, li |-> s.li]
             ELSE IF /\ m = MAXIMUM
                     /\ Truthy(context.currentFile)
                     /\ SensitiveFileName(context.currentFile)
                  THEN [ok |-> FALSE, li |-> s.li]
                  ELSE [ok |-> TRUE, li |-> s.li]

(***************************************************************************)
(* Inputs: texts, paths, contexts and requests.                            *)
(***************************************************************************)
T_none   == <<>>                               \* undefined or ''
T_blank  == <<"ws">>                           \* white space only
T_plain  == <<"w">>                            \* code without sensitive data
T_pw     == <<"w", "password">>                \* ... password = "hunter2"
T_email  == <<"email", "w">>                   \* an e-mail address, then code
T_pwpw   == <<"password", "w", "password">>    \* two password assignments

Texts == {T_none, T_blank, T_plain, T_pw, T_email, T_pwpw}

NoFile   == <<>>                               \* undefined or ''
P_app    == <<"src", "/", "app.ts">>
P_env    == <<"config", "/", ".env">>
P_secret == <<"lib", "/", "SECRET", ".ts">>
D_src    == <<"src", "/">>
D_config == <<"config">>

Paths == {P_app, P_env, P_secret}
ExcludableFiles == {P_app}
ExcludableDirectories == {D_src, D_config}

\* A ContextData: currentFile, surroundingCode, the other fields that are
\* present (truthy), and projectStructure.files.length.
Ctx(file, code, fields, n) ==
    [currentFile |-> file, surroundingCode |-> code, fields |-> fields, numFiles |-> n]

\* An LLMRequest as canProcessRequest reads it.
Req(prompt, file) == [prompt |-> prompt, currentFile |-> file]

GateContexts == {Ctx(f, t, {}, 0) : f \in Paths \cup {NoFile}, t \in Texts \ {T_blank}}
GateRequests == {Req(t, f) : t \in Texts \ {T_blank}, f \in Paths \cup {NoFile}}

\* whether some sensitive-data pattern matches somewhere in the text
MatchesSensitivePattern(text) ==
    \E i \in 1..NumPatterns : RegexTest(i, text, 0).found

(***************************************************************************)
(* PrivacyManager operations                                               *)
(***************************************************************************)
NoEval == [kind |-> "none"]

InitPrivacy ==
    /\ mode \in PrivacyMode
    /\ excludedFiles = <<>>
    /\ excludedDirectories = <<>>
    /\ lastIndex = [i \in 1..NumPatterns |-> 0]
    /\ lastEval = NoEval

setPrivacyMode(m) ==
    /\ mode' = m
    /\ UNCHANGED <<excludedFiles, excludedDirectories, lastIndex, lastEval>>

addExcludedFile(filePath) ==
    /\ ~SeqIncludes(excludedFiles, filePath)
    /\ excludedFiles' = Append(excludedFiles, filePath)
    /\ lastEval' = NoEval
    /\ UNCHANGED <<mode, excludedDirectories, lastIndex>>

addExcludedDirectory(dirPath) ==
    /\ ~SeqIncludes(excludedDirectories, dirPath)
    /\ excludedDirectories' = Append(excludedDirectories, dirPath)
    /\ lastEval' = NoEval
    /\ UNCHANGED <<mode, excludedFiles, lastIndex>>

\* Array.prototype.splice(index, 1) at the first index holding x
RemoveFirst(list, x) ==
    LET index == CHOOSE k \in 1..Len(list) :
                     list[k] = x /\ \A j \in 1..(k - 1) : list[j] # x
    IN  SubSeq(list, 1, index - 1) \o SubSeq(list, index + 1, Len(list))

removeExcludedFile(filePath) ==
    /\ SeqIncludes(excludedFiles, filePath)
    /\ excludedFiles' = RemoveFirst(excludedFiles, filePath)
    /\ lastEval' = NoEval
    /\ UNCHANGED <<mode, excludedDirectories, lastIndex>>

removeExcludedDirectory(dirPath) ==
    /\ SeqIncludes(excludedDirectories, dirPath)
    /\ excludedDirectories' = RemoveFirst(excludedDirectories, dirPath)
    /\ lastEval' = NoEval
    /\ UNCHANGED <<mode, excludedFiles, lastIndex>>

\* one call of canProcessContext by a client of the PrivacyManager
EvalContext(context) ==
    LET r == canProcessContext(context, mode, excludedFiles, excludedDirectories, lastIndex)
    IN  /\ lastIndex' = r.li
        /\ lastEval' = [kind |-> "context", input |-> context, text |-> context.surroundingCode,
                        mode |-> mode, ok |-> r.ok]
        /\ UNCHANGED <<mode, excludedFiles, excludedDirectories>>

\* one call of canProcessRequest by a client of the PrivacyManager
EvalRequest(request) ==
    LET r == canProcessRequest(request, mode, excludedFiles, excludedDirectories, lastIndex)
    IN  /\ lastIndex' = r.li
        /\ lastEval' = [kind |-> "request", input |-> request, text |-> request.prompt,
                        mode |-> mode, ok |-> r.ok]
        /\ UNCHANGED <<mode, excludedFiles, excludedDirectories>>

(***************************************************************************)
(* Agents: the operations each registered class defines, its capabilities  *)
(* and its validateContext.                                                *)
(***************************************************************************)
AgentType == {"default", "architect", "codesmith", "bughunter", "docguru", "gitmate", "devflow"}

ContractOperations == {"execute", "getCapabilities", "validateContext", "getStatus"}

\* AgentOrchestrator.initializeAgents: the six instances, each given by the
\* contract operations its class defines.
initializeAgents ==
    [a \in {"architect", "codesmith", "bughunter", "docguru", "gitmate", "devflow"} |->
        CASE a \in {"architect", "codesmith", "bughunter"} -> ContractOperations
          [] a = "docguru" -> {"getCapabilities"}
          [] a \in {"gitmate", "devflow"} -> {"execute", "getCapabilities"}]

\* getCapabilities of each class: the requiresContext of each capability, in
\* order
BugHunterAgent_getCapabilities ==
    << {"surroundingCode", "errorMessages"},
       {"currentFunction", "surroundingCode", "expectedBehavior"},
       {"surroundingCode", "performanceMetrics"},
       {"surroundingCode", "memoryUsage"},
       {"surroundingCode", "asyncPatterns"},
       {"surroundingCode", "typeDefinitions"},
       {"surroundingCode", "dependencies", "securityContext"} >>

CodeSmithAgent_getCapabilities ==
    << {"currentFunction", "surroundingCode"},
       {"currentClass", "projectStructure"},
       {"currentFunction", "currentClass", "dependencies"},
       {"cursorPosition", "surroundingCode"},
       {"surroundingCode", "dependencies"},
       {"currentFunction", "currentClass", "surroundingCode"} >>

ArchitectAgent_getCapabilities ==
    << {"projectStructure", "dependencies"},
       {"currentClass", "currentFunction", "surroundingCode"},
       {"projectStructure", "dependencies", "architecturalPatterns"},
       {"dependencies", "configFiles"} >>

DocGuruAgent_getCapabilities ==
    << {"surroundingCode", "selectedText", "filePath"},
       {"surroundingCode", "selectedText", "filePath"} >>

GitMateAgent_getCapabilities == << {"git.diff"} >>

DevFlowAgent_getCapabilities ==
    << {"problemStatement", "filePath", "surroundingCode"},
       {"problemStatement", "filePath", "surroundingCode"},
       {"problemStatement", "filePath", "surroundingCode"} >>

\* AgentOrchestrator.getAgentCapabilities: agent ? agent.getCapabilities() : []
getAgentCapabilities(a) ==
    CASE a = "bughunter" -> BugHunterAgent_getCapabilities
      [] a = "codesmith" -> CodeSmithAgent_getCapabilities
      [] a = "architect" -> ArchitectAgent_getCapabilities
      [] a = "docguru" -> DocGuruAgent_getCapabilities
      [] a = "gitmate" -> GitMateAgent_getCapabilities
      [] a = "devflow" -> DevFlowAgent_getCapabilities
      [] OTHER -> << >>

\* every field some capability of the agent lists in requiresContext
RequiredFields(a) ==
    UNION {getAgentCapabilities(a)[k] : k \in 1..Len(getAgentCapabilities(a))}

\* the fields of a context that are present
PresentFields(context) ==
    context.fields
    \cup (IF Truthy(context.currentFile) THEN {"currentFile"} ELSE {})
    \cup (IF Truthy(context.surroundingCode) THEN {"surroundingCode"} ELSE {})

\* String.prototype.trim
RECURSIVE TrimStart(_)
TrimStart(text) ==
    IF text # <<>> /\ Head(text) = "ws" THEN TrimStart(Tail(text)) ELSE text

RECURSIVE TrimEnd(_)
TrimEnd(text) ==
    IF text # <<>> /\ text[Len(text)] = "ws"
    THEN TrimEnd(SubSeq(text, 1, Len(text) - 1))
    ELSE text

Trim(text) == TrimEnd(TrimStart(text))

Valid == [valid |-> TRUE, reason |-> ""]
Invalid(reason) == [valid |-> FALSE, reason |-> reason]

\* validateContext of the three classes that define it
BugHunterAgent_validateContext(context) ==
    IF ~Truthy(context.currentFile)
    THEN Invalid("No current file context available")
    ELSE IF ~Truthy(context.surroundingCode) \/ Len(Trim(context.surroundingCode)) = 0
    THEN Invalid("No code available for analysis")
    ELSE Valid

CodeSmithAgent_validateContext(context) ==
    IF ~Truthy(context.currentFile)
    THEN Invalid("No current file context available")
    ELSE IF "language" \notin context.fields
    THEN Invalid("Programming language not detected")
    ELSE Valid

ArchitectAgent_validateContext(context) ==
    IF "projectRoot" \notin context.fields
    THEN Invalid("No project root found")
    ELSE IF "projectStructure" \notin context.fields \/ context.numFiles = 0
    THEN Invalid("No project structure available for analysis")
    ELSE Valid

\* AgentOrchestrator.validateAgentCapabilities: called records whether the
\* agent's validateContext was invoked.
validateAgentCapabilities(registry, a, context) ==
    IF a \notin DOMAIN registry
    THEN [called |-> FALSE, v |-> Invalid("Agent not found")]
    ELSE IF "validateContext" \in registry[a]
    THEN [called |-> TRUE,
          v |-> CASE a = "bughunter" -> BugHunterAgent_validateContext(context)
                  [] a = "codesmith" -> CodeSmithAgent_validateContext(context)
                  [] a = "architect" -> ArchitectAgent_validateContext(context)]
    ELSE [called |-> FALSE, v |-> Valid]

\* what execute of each class can come to: a result with success true
\* ("success") or false ("failure"), or an error thrown out of execute
\* ("throw").  BugHunterAgent, CodeSmithAgent and ArchitectAgent turn every
\* error into a failed result in their catch block.
BugHunterAgent_execute == {"success", "failure"}
CodeSmithAgent_execute == {"success", "failure"}
ArchitectAgent_execute == {"success", "failure"}

\* GitMateAgent.execute returns success: true on both paths; its calls of
\* stream.markdown stand outside any try block
GitMateAgent_execute == {"success", "throw"}

\* DevFlowAgent.execute: a failed result unless context.command names one of
\* its two commands
DevFlowAgent_execute(context) ==
    IF "devflowCommand" \in context.fields
    THEN {"success", "failure"}
    ELSE {"failure"}

\* await agent.execute(context, cancellationToken, stream)
AgentExecuteOutcomes(a, context) ==
    CASE a = "bughunter" -> BugHunterAgent_execute
      [] a = "codesmith" -> CodeSmithAgent_execute
      [] a = "architect" -> ArchitectAgent_execute
      [] a = "gitmate" -> GitMateAgent_execute
      [] a = "devflow" -> DevFlowAgent_execute(context)

(***************************************************************************)
(* AgentOrchestrator.executeAgent                                          *)
(*                                                                         *)
(* A call runs from its entry to its first await in one step               *)
(* (executeAgent), resumes when agent.execute settles                      *)
(* (AgentExecuteSettles), and returns when the audit append settles        *)
(* (LogAgentExecutionSettles).                                             *)
(***************************************************************************)
CallIds == {1, 2}

NoContext == Ctx(NoFile, T_none, {}, 0)
NoResult == [agentType |-> None, success |-> FALSE, error |-> ""]
NoValidation == [called |-> FALSE, v |-> Valid]

\* pc: idle, executing (awaiting agent.execute), logging (awaiting
\* logAgentExecution), returned.  raised is the error thrown inside the try
\* block; recorded lists the success flags of the records this call pushed;
\* logs counts its logAgentExecution calls; validation is what the agent's
\* validateContext returned; executeCalls counts its agent.execute calls.
IdleCall ==
    [pc |-> "idle", owner |-> None, agentType |-> None, context |-> NoContext,
     cancelled |-> FALSE, result |-> NoResult, raised |-> "", recorded |-> <<>>,
     logs |-> 0, validation |-> NoValidation, executeCalls |-> 0]

Succeeded(a) == [agentType |-> a, success |-> TRUE, error |-> ""]
Failed(a, err) == [agentType |-> a, success |-> FALSE, error |-> err]

\* an AgentExecution as the history keeps it
Execution(a, ok) == [agentType |-> a, success |-> ok]

\* variant: the context is validated before the cancellation check
executeAgentPath_ValidateFirst(registry, a, context, cancelled) ==
    IF a \notin DOMAIN registry THEN "notfound"
    ELSE IF ~validateAgentCapabilities(registry, a, context).v.valid THEN "invalid"
    ELSE IF cancelled THEN "cancelled"
    ELSE "execute"

\* variant: a failed validation does not stop the call
executeAgentPath_IgnoreInvalid(registry, a, context, cancelled) ==
    IF a \notin DOMAIN registry THEN "notfound"
    ELSE IF cancelled THEN "cancelled"
    ELSE "execute"

\* the order of the checks in the try block, up to the call of agent.execute
executeAgentPath(registry, a, context, cancelled) ==
    IF a \notin DOMAIN registry THEN "notfound"
    ELSE IF cancelled THEN "cancelled"
    ELSE IF ~validateAgentCapabilities(registry, a, context).v.valid THEN "invalid"
    ELSE "execute"

\* variant: the catch block builds errorResult but records nothing
CatchError_NoRecord(call, msg) ==
    [call EXCEPT !.pc = "logging",
                 !.result = Failed(call.agentType, msg),
                 !.raised = msg]

\* the catch block: build errorResult, push the failed execution and call
\* logAgentExecution
CatchError(call, msg) ==
    [call EXCEPT !.pc = "logging",
                 !.result = Failed(call.agentType, msg),
                 !.raised = msg,
                 !.recorded = Append(@, FALSE),
                 !.logs = @ + 1]

\* the try block after agent.execute returned result: push the execution and
\* call logAgentExecution
RecordExecution(call, result) ==
    [call EXCEPT !.pc = "logging",
                 !.result = result,
                 !.recorded = Append(@, result.success),
                 !.logs = @ + 1]

\* the records a call has pushed beyond those it had pushed before
Pushed(before, after) ==
    [k \in 1..(Len(after.recorded) - Len(before.recorded)) |->
        Execution(after.agentType, after.recorded[Len(before.recorded) + k])]

\* executeAgent from its entry to its first await or to its return
BeginCall(registry, owner, a, context, cancelled) ==
    LET base == [IdleCall EXCEPT !.owner = owner, !.agentType = a,
                                 !.context = context, !.cancelled = cancelled]
        path == executeAgentPath(registry, a, context, cancelled)
        val  == validateAgentCapabilities(registry, a, context)
        checked == [base EXCEPT !.validation = val]
    IN  CASE path = "notfound" -> CatchError(base, "Agent " \o a \o " not found")
          [] path = "cancelled" ->
                [base EXCEPT !.pc = "returned",
                             !.result = Failed(a, "Operation was cancelled")]
          [] path = "invalid" ->
                [checked EXCEPT !.pc = "returned", !.result = Failed(a, val.v.reason)]
          [] path = "execute" ->
                IF "execute" \in registry[a]
                THEN [checked EXCEPT !.pc = "executing", !.executeCalls = 1]
                ELSE CatchError(checked, "agent.execute is not a function")

\* activeAgent after a step of a call: the finally block resets it
ActiveAfter(call) == IF call.pc = "returned" THEN None ELSE call.agentType

InFlight == {c \in CallIds : calls[c].pc \in {"executing", "logging"}}

\* the history is kept within MaxHistory records
HistoryHasRoom == Len(history) + Cardinality({c \in CallIds : calls[c].pc = "executing"}) < MaxHistory

executeAgent(c, a, context, cancelled) ==
    /\ calls[c].pc = "idle"
    /\ HistoryHasRoom
    /\ LET call == BeginCall(agents, "caller", a, context, cancelled)
       IN  /\ calls' = [calls EXCEPT ![c] = call]
           /\ history' = history \o Pushed(IdleCall, call)
           /\ activeAgent' = ActiveAfter(call)
    /\ UNCHANGED <<chain, agents>>

\* agent.execute settles: with a result, or with a thrown error
AgentExecuteSettles(c, outcome) ==
    /\ calls[c].pc = "executing"
    /\ outcome \in AgentExecuteOutcomes(calls[c].agentType, calls[c].context)
    /\ LET a == calls[c].agentType
           call == CASE outcome = "success" -> RecordExecution(calls[c], Succeeded(a))
                     [] outcome = "failure" ->
                            RecordExecution(calls[c], Failed(a, "agent failure"))
                     [] outcome = "throw" -> CatchError(calls[c], "agent threw")
       IN  /\ calls' = [calls EXCEPT ![c] = call]
           /\ history' = history \o Pushed(calls[c], call)
    /\ UNCHANGED <<activeAgent, chain, agents>>

\* logAgentExecution settles (writeLogEntry swallows a failed append); the
\* call returns its result and the finally block runs
LogAgentExecutionSettles(c) ==
    /\ calls[c].pc = "logging"
    /\ calls' = [calls EXCEPT ![c].pc = "returned"]
    /\ activeAgent' = None
    /\ UNCHANGED <<history, chain, agents>>

\* the caller of executeAgent takes the result
TakeResult(c) ==
    /\ calls[c].pc = "returned"
    /\ calls[c].owner = "caller"
    /\ calls' = [calls EXCEPT ![c] = IdleCall]
    /\ UNCHANGED <<history, activeAgent, chain, agents>>

\* variant: the oldest entry is dropped instead of the whole list
clearHistory_DropsOldest ==
    /\ history # <<>>
    /\ history' = Tail(history)
    /\ UNCHANGED <<activeAgent, calls, chain, agents>>

clearHistory ==
    /\ history # <<>>
    /\ history' = <<>>
    /\ UNCHANGED <<activeAgent, calls, chain, agents>>

(***************************************************************************)
(* AgentOrchestrator.executeAgentChain                                     *)
(***************************************************************************)
ChainCall == 1      \* the call slot the chain's executeAgent calls run in

\* a Partial<ContextData>: the properties in keys are set; result.contextUpdates
\* is undefined when defined is FALSE
\* the settings of section 'devmind' and the provider's copy, at activation
DefaultConfiguration ==
    [devmind |-> [privacyMode |-> TRUE, qwenApiUrl |-> "http://localhost:8000"],
     llmProvider |-> [apiUrl |-> "http://localhost:8000"]]

ContextUpdates(keys, code, file) ==
    [defined |-> TRUE, keys |-> keys, surroundingCode |-> code, currentFile |-> file]

NoUpdates ==
    [defined |-> FALSE, keys |-> {}, surroundingCode |-> T_none, currentFile |-> NoFile]

\* variant: a property the context already has is kept
Overlay_KeepsEarlier(context, updates) == context

\* { ...context, ...updates }
Overlay(context, updates) ==
    [context EXCEPT
        !.surroundingCode = IF "surroundingCode" \in updates.keys
                            THEN updates.surroundingCode ELSE @,
        !.currentFile = IF "currentFile" \in updates.keys THEN updates.currentFile ELSE @]

\* context is the caller's object, currentContext the loop's copy; invoked
\* lists the agent types executeAgent was called for, passed the contexts it
\* was called with, updates the contextUpdates of the results
IdleChain ==
    [pc |-> "idle", agentChain |-> <<>>, context |-> NoContext, cancelled |-> FALSE,
     pos |-> 0, results |-> <<>>, invoked |-> <<>>,
     currentContext |-> NoContext, passed |-> <<>>, updates |-> <<>>]

\* the loop stops before the agent at ch.pos
ChainBreaksAtHead(ch) == ch.pos > Len(ch.agentChain) \/ ch.cancelled

\* variant: the loop goes on after a failed result
ChainBreaksAfter_Never(result) == FALSE

\* the loop stops after this result
ChainBreaksAfter(result) == ~result.success

\* the head of the for loop with the chain in state ch: leave the loop and
\* return the results, or call executeAgent for the agent at ch.pos and await it
ChainLoop(ch) ==
    IF ChainBreaksAtHead(ch)
    THEN /\ chain' = [ch EXCEPT !.pc = "returned"]
         /\ calls' = [calls EXCEPT ![ChainCall] = IdleCall]
         /\ history' = history
         /\ activeAgent' = activeAgent
    ELSE LET a == ch.agentChain[ch.pos]
             call == BeginCall(agents, "chain", a, ch.currentContext, ch.cancelled)
         IN  /\ HistoryHasRoom
             /\ chain' = [ch EXCEPT !.pc = "awaiting", !.invoked = Append(@, a),
                                    !.passed = Append(@, ch.currentContext)]
             /\ calls' = [calls EXCEPT ![ChainCall] = call]
             /\ history' = history \o Pushed(IdleCall, call)
             /\ activeAgent' = ActiveAfter(call)

executeAgentChain(agentChain, context, cancelled) ==
    /\ chain.pc = "idle"
    /\ calls[ChainCall].pc = "idle"
    /\ ChainLoop([IdleChain EXCEPT !.agentChain = agentChain, !.context = context,
                                   !.currentContext = context,
                                   !.cancelled = cancelled, !.pos = 1])
    /\ UNCHANGED agents

\* the awaited executeAgent has returned: push its result, then break or go
\* round the loop
ChainResume ==
    /\ chain.pc = "awaiting"
    /\ calls[ChainCall].pc = "returned"
    /\ calls[ChainCall].owner = "chain"
    /\ LET result == calls[ChainCall].result
           returned == IF calls[ChainCall].executeCalls > 0 /\ calls[ChainCall].raised = ""
                       THEN contextUpdates ELSE NoUpdates
           ch == [chain EXCEPT
                    !.results = Append(@, result),
                    !.updates = Append(@, returned),
                    !.currentContext = IF result.success /\ returned.defined
                                       THEN Overlay(@, returned) ELSE @]
       IN  IF ChainBreaksAfter(result)
           THEN /\ chain' = [ch EXCEPT !.pc = "returned"]
                /\ calls' = [calls EXCEPT ![ChainCall] = IdleCall]
                /\ UNCHANGED <<history, activeAgent>>
           ELSE ChainLoop([ch EXCEPT !.pos = @ + 1])
    /\ UNCHANGED agents

\* the holder of the cancellation token requests cancellation while the
\* chain is suspended
CancelChain ==
    /\ chain.pc = "awaiting"
    /\ ~chain.cancelled
    /\ chain' = [chain EXCEPT !.cancelled = TRUE]
    /\ UNCHANGED <<history, activeAgent, calls, agents>>

\* the caller of executeAgentChain takes the results
TakeChainResults ==
    /\ chain.pc = "returned"
    /\ chain' = IdleChain
    /\ UNCHANGED <<history, activeAgent, calls, agents>>

(***************************************************************************)
(* The agents' execute, as the agent instances run it.                     *)
(*                                                                         *)
(* BugHunterAgent, CodeSmithAgent and ArchitectAgent keep a status record  *)
(* and run the same execute: set isExecuting, await one completion call    *)
(* inside try, count the outcome in the try or the catch block, reset      *)
(* isExecuting in finally.  averageExecutionTime is kept as the fraction   *)
(* avgNum / avgDen.                                                        *)
(***************************************************************************)
StatusAgents == {"architect", "codesmith", "bughunter"}

ExecutingAgents == StatusAgents \cup {"gitmate", "devflow"}

\* private status: AgentStatus = { isReady: true, isExecuting: false, ... }
InitialStatus ==
    [isExecuting |-> FALSE, errorCount |-> 0, successCount |-> 0,
     avgNum |-> 0, avgDen |-> 1]

RunIds == {1, 2}

\* pc: idle, awaiting (the completion call), returned, threw.  completionCalls
\* counts the completion calls the invocation issued, completion is how the
\* call settled, result the AgentResult returned.
IdleRun ==
    [pc |-> "idle", agentType |-> None, cancelled |-> FALSE, startTime |-> 0,
     completionCalls |-> 0, completion |-> None, result |-> NoResult]

InitAgentInstances ==
    /\ agentStatus = [a \in StatusAgents |-> InitialStatus]
    /\ runs = [r \in RunIds |-> IdleRun]
    /\ agentLog = [a \in ExecutingAgents |-> <<>>]

RECURSIVE GCD(_, _)
GCD(x, y) == IF y = 0 THEN x ELSE GCD(y, x % y)

\* the fraction num / den in lowest terms
Fraction(num, den) ==
    LET g == GCD(num, den)
    IN  IF g = 0 THEN [num |-> 0, den |-> 1] ELSE [num |-> num \div g, den |-> den \div g]

\* updateAverageExecutionTime(executionTime), on the status as it is when
\* the method is called
updateAverageExecutionTime(status, executionTime) ==
    LET totalExecutions == status.successCount + status.errorCount
        f == Fraction(status.avgNum * (totalExecutions - 1) + executionTime * status.avgDen,
                      status.avgDen * totalExecutions)
    IN  [status EXCEPT !.avgNum = f.num, !.avgDen = f.den]

\* the try block after the awaited analysis returned its result
ExecuteSucceeds(status, executionTime) ==
    updateAverageExecutionTime([status EXCEPT !.successCount = @ + 1], executionTime)

\* the catch block
ExecuteCatches(status, executionTime) ==
    [status EXCEPT !.errorCount = @ + 1]

\* variant: the finally block leaves isExecuting as it is
ExecuteFinally_KeepsExecuting(status) == status

\* the finally block
ExecuteFinally(status) == [status EXCEPT !.isExecuting = FALSE]

\* how the awaited completion call can settle: a response with content
\* ("content"), a response with success false ("failed"), a rejection
\* ("throws"), a response the parser throws on ("unparsable").
\* QwenLLMProvider.sendRequest, which GitMateAgent calls, catches every error.
CompletionOutcomes(a) ==
    IF a = "gitmate" THEN {"content", "failed"}
    ELSE {"content", "failed", "throws", "unparsable"}

\* execute of BugHunterAgent, CodeSmithAgent, ArchitectAgent from its entry to
\* the await of the completion call; cancellationToken is handed on and never
\* read
StatusAgentExecute(r, a, cancelled) ==
    /\ a \in StatusAgents
    /\ agentStatus' = [agentStatus EXCEPT ![a].isExecuting = TRUE]
    /\ runs' = [runs EXCEPT ![r] = [IdleRun EXCEPT !.pc = "awaiting", !.agentType = a,
                                                   !.cancelled = cancelled,
                                                   !.startTime = now,
                                                   !.completionCalls = 1]]
    /\ UNCHANGED agentLog

\* GitMateAgent.execute from its entry: with a staged diff it awaits
\* sendRequest, without one it returns the default message; stream.markdown
\* stands outside any try block
GitMateAgentExecute(r, cancelled, gitDiff, streamClosed) ==
    /\ runs' = [runs EXCEPT ![r] =
            LET base == [IdleRun EXCEPT !.agentType = "gitmate", !.cancelled = cancelled,
                                        !.startTime = now]
            IN  IF streamClosed THEN [base EXCEPT !.pc = "threw"]
                ELSE IF gitDiff THEN [base EXCEPT !.pc = "awaiting", !.completionCalls = 1]
                ELSE [base EXCEPT !.pc = "returned", !.result = Succeeded("gitmate")]]
    /\ agentLog' = IF streamClosed \/ ~gitDiff
                   THEN [agentLog EXCEPT !["gitmate"] = Append(@, 0)]
                   ELSE agentLog
    /\ UNCHANGED agentStatus

\* DevFlowAgent.execute from its entry: automateWorkflow or generateScript
\* for their commands, a failed result for any other
DevFlowAgentExecute(r, cancelled, knownCommand) ==
    /\ runs' = [runs EXCEPT ![r] =
            LET base == [IdleRun EXCEPT !.agentType = "devflow", !.cancelled = cancelled,
                                        !.startTime = now]
            IN  IF knownCommand THEN [base EXCEPT !.pc = "awaiting", !.completionCalls = 1]
                ELSE [base EXCEPT !.pc = "returned",
                                  !.result = Failed("devflow", "Unsupported command for DevFlowAgent")]]
    /\ agentLog' = IF knownCommand THEN agentLog
                   ELSE [agentLog EXCEPT !["devflow"] = Append(@, 0)]
    /\ UNCHANGED agentStatus

\* the awaited completion call settles and execute runs to its return
CompletionSettles(r, outcome) ==
    /\ runs[r].pc = "awaiting"
    /\ outcome \in CompletionOutcomes(runs[r].agentType)
    /\ LET a == runs[r].agentType
           executionTime == now - runs[r].startTime
           ok == CASE a \in StatusAgents -> outcome = "content"
                   [] a = "gitmate" -> TRUE
                   [] a = "devflow" -> outcome = "content"
           result == IF ok THEN Succeeded(a) ELSE Failed(a, outcome)
       IN  /\ runs' = [runs EXCEPT ![r].pc = "returned", ![r].completion = outcome,
                                   ![r].result = result]
           /\ agentLog' = [agentLog EXCEPT ![a] = Append(@, executionTime)]
           /\ agentStatus' =
                IF a \in StatusAgents
                THEN [agentStatus EXCEPT ![a] =
                        ExecuteFinally(IF ok THEN ExecuteSucceeds(@, executionTime)
                                             ELSE ExecuteCatches(@, executionTime))]
                ELSE agentStatus

\* the caller of execute takes the result or the error
RunTaken(r) ==
    /\ runs[r].pc \in {"returned", "threw"}
    /\ runs' = [runs EXCEPT ![r] = IdleRun]
    /\ UNCHANGED <<agentStatus, agentLog>>

(***************************************************************************)
(* The orchestrator on its own: callers of executeAgent and                *)
(* executeAgentChain.                                                      *)
(***************************************************************************)
AllFields ==
    UNION {RequiredFields(a) : a \in AgentType}
    \cup {"language", "projectRoot", "devflowCommand"}

C_code    == Ctx(P_app, T_plain, {"language"}, 0)
C_blank   == Ctx(P_app, T_blank, {}, 0)
C_project == Ctx(P_app, T_plain, {"language", "projectRoot", "projectStructure", "devflowCommand"}, 2)
C_noFiles == Ctx(NoFile, T_none, {"projectRoot", "projectStructure"}, 0)
C_full    == Ctx(P_app, T_plain, AllFields, 2)

OrchContexts == {NoContext, C_code, C_blank, C_project, C_noFiles, C_full}

DirectCall == 2     \* the call slot of direct callers of executeAgent

ChainAgents == {"bughunter", "gitmate", "docguru"}

RECURSIVE SeqsUpTo(_, _)
SeqsUpTo(S, n) ==
    IF n = 0 THEN {<<>>}
    ELSE LET shorter == SeqsUpTo(S, n - 1)
         IN  shorter \cup {Append(q, x) : q \in {r \in shorter : Len(r) = n - 1}, x \in S}

InitOrchestrator ==
    /\ history = <<>>
    /\ activeAgent = None
    /\ calls = [c \in CallIds |-> IdleCall]
    /\ chain = IdleChain
    /\ agents = initializeAgents

NoRun == [kind |-> "none"]
NoResponse == [kind |-> "none"]

\* started: the agent types of the executeAgent calls entered, in order of
\* entry; returned: the success flags of the results returned, in order of
\* return; clean: no call was in progress when the history was last cleared
NoCallLog == [started |-> <<>>, returned |-> <<>>, clean |-> TRUE]
NoSuggestion == [kind |-> "none"]
NoSynthesis == [kind |-> "none"]
NoAppend == [kind |-> "none"]

\* no request is in progress
IdleRequest ==
    [pc |-> "idle", prompt |-> <<>>, retryCount |-> 0, attempts |-> 0, errors |-> <<>>,
     delays |-> <<>>, response |-> NoResponse]

\* the documents the editor can show
Documents == {"a.ts", "b.ts"}

NoContextRequest == [kind |-> "none"]

\* a new DevMindManager, an editor whose documents have not been edited
\* text: the number of edits of each document; edits: when the documents
\* were edited; rebuilds: when onDocumentChange started an analysis; events:
\* the number of events of the editor and commands of the user so far
InitManager ==
    /\ contextCache = [uri \in {} |-> 0]
    /\ lastAnalysisTime = 0
    /\ documents = [active |-> "a.ts", text |-> [uri \in Documents |-> 0],
                    edits |-> <<>>, rebuilds |-> <<>>, events |-> 0]
    /\ pending = {}
    /\ heap = <<>>
    /\ lastContext = NoContextRequest

InitRest ==
    /\ InitAgentInstances
    /\ callLog = NoCallLog
    /\ suggestion = NoSuggestion
    /\ synthesis = NoSynthesis
    /\ http = IdleRequest
    /\ audit = NoAppend
    /\ InitManager
    /\ contextUpdates = NoUpdates
    /\ attempted = <<>>
    /\ configuration = DefaultConfiguration
    /\ lastRun = NoRun
    /\ now = 0
    /\ requestTimestamps = <<>>
    /\ requestCount = 0
    /\ lastResponse = NoResponse

Init ==
    /\ InitOrchestrator
    /\ InitRest
    /\ mode = ENHANCED
    /\ excludedFiles = <<>>
    /\ excludedDirectories = <<>>
    /\ lastIndex = [i \in 1..NumPatterns |-> 0]
    /\ lastEval = NoEval

othersOfOrch == <<mode, excludedFiles, excludedDirectories, lastIndex, lastEval,
                  lastRun, now, requestTimestamps, requestCount, lastResponse,
                  agentStatus, runs, agentLog, callLog, suggestion, synthesis, laterVars>>

\* In this specification the callers take turns: a direct call and a chain
\* are not in progress together.
CallExecuteAgent ==
    \E a \in AgentType, context \in OrchContexts, cancelled \in BOOLEAN :
        /\ chain.pc = "idle"
        /\ executeAgent(DirectCall, a, context, cancelled)
        /\ UNCHANGED othersOfOrch

AgentExecuteDone ==
    \E c \in CallIds, outcome \in {"success", "failure", "throw"} :
        AgentExecuteSettles(c, outcome) /\ UNCHANGED othersOfOrch

AuditLogDone ==
    \E c \in CallIds : LogAgentExecutionSettles(c) /\ UNCHANGED othersOfOrch

CallerTakesResult ==
    \E c \in CallIds : TakeResult(c) /\ UNCHANGED othersOfOrch

CallClearHistory == clearHistory /\ UNCHANGED othersOfOrch

CallExecuteAgentChain ==
    \E agentChain \in SeqsUpTo(ChainAgents, MaxChain), context \in {C_code, C_blank},
       cancelled \in BOOLEAN :
        /\ calls[DirectCall].pc = "idle"
        /\ executeAgentChain(agentChain, context, cancelled)
        /\ UNCHANGED othersOfOrch

ChainResumes == ChainResume /\ UNCHANGED othersOfOrch

TokenCancelled == CancelChain /\ UNCHANGED othersOfOrch

CallerTakesChainResults == TakeChainResults /\ UNCHANGED othersOfOrch

Next ==
    \/ CallExecuteAgent
    \/ AgentExecuteDone
    \/ AuditLogDone
    \/ CallerTakesResult
    \/ CallClearHistory
    \/ CallExecuteAgentChain
    \/ ChainResumes
    \/ TokenCancelled
    \/ CallerTakesChainResults

Spec == Init /\ [][Next]_vars

(***************************************************************************)
(* Properties of executeAgent and executeAgentChain (specification Spec)   *)
(***************************************************************************)
Registered(a) == a \in DOMAIN agents

\* C1: every executeAgent call that has returned, whatever its outcome, has
\* appended exactly one record to the execution history and has issued
\* exactly one logAgentExecution.
C1_ExactlyOneRecordPerCall ==
    \A c \in CallIds :
        calls[c].pc = "returned" =>
            /\ Len(calls[c].recorded) = 1
            /\ calls[c].logs = 1

IsPrefix(p, q) == Len(p) <= Len(q) /\ SubSeq(q, 1, Len(p)) = p

C5_ChainState ==
    /\ IsPrefix(chain.invoked, chain.agentChain)
    /\ Len(chain.results) <= Len(chain.invoked)
    /\ Len(chain.invoked) <= Len(chain.results) + 1
    /\ \A k \in 1..Len(chain.results) : chain.results[k].agentType = chain.invoked[k]
    /\ \A k \in 1..(Len(chain.results) - 1) : chain.results[k].success
    /\ (\E k \in 1..Len(chain.results) : ~chain.results[k].success) =>
            Len(chain.invoked) = Len(chain.results)
    /\ chain.pc = "returned" => Len(chain.results) = Len(chain.invoked)

C5_NoInvocationAfterCancel ==
    (chain.cancelled /\ chain'.pc # "idle") => chain'.invoked = chain.invoked

\* C5: executeAgentChain invokes the agents in list order, invokes no agent
\* after the first failed result or after cancellation was requested, and
\* returns exactly the results of the agents it invoked (for [A, B] with A
\* failing: one result, A's, and B never invoked).
C5_ChainStopsAtFirstFailure ==
    []C5_ChainState /\ [][C5_NoInvocationAfterCancel]_vars

\* a chain of two agents has returned after its first agent failed
C5_Witness ==
    /\ chain.pc = "returned"
    /\ Len(chain.agentChain) = 2
    /\ Len(chain.results) = 1
    /\ ~chain.results[1].success
    /\ chain.invoked = <<chain.agentChain[1]>>

C6_Converted ==
    \A c \in CallIds :
        /\ calls[c].pc \in {"idle", "executing", "logging", "returned"}
        /\ calls[c].raised # "" =>
              /\ calls[c].pc \in {"logging", "returned"}
              /\ calls[c].result = Failed(calls[c].agentType, calls[c].raised)
              /\ calls[c].recorded = <<FALSE>>

C6_Recorded ==
    \A c \in CallIds :
        (calls'[c].raised # "" /\ calls'[c].pc = "logging" /\ calls[c].pc # "logging") =>
            history' = Append(history, Execution(calls'[c].agentType, FALSE))

\* C6: no error raised inside executeAgent escapes it: an unknown agent type
\* or a throwing agent yields a returned result with success=false, and the
\* failure is appended to the execution history with success=false.
C6_NoExceptionEscapes ==
    []C6_Converted /\ [][C6_Recorded]_vars

\* a call for a registered agent has returned after an error was raised in the
\* try block, and its failed execution is the last record of the history
C6_Witness ==
    \E c \in CallIds :
        /\ calls[c].pc = "returned"
        /\ calls[c].raised # ""
        /\ Registered(calls[c].agentType)
        /\ history # <<>>
        /\ history[Len(history)] = Execution(calls[c].agentType, FALSE)

\* C7: a call for a registered agent made with cancellation already requested
\* returns the failed result 'Operation was cancelled' and calls neither
\* validateContext nor execute.
C7_CancelledBeforeContact ==
    \A c \in CallIds :
        (calls[c].pc # "idle" /\ calls[c].cancelled /\ Registered(calls[c].agentType)) =>
            /\ calls[c].pc = "returned"
            /\ calls[c].result = Failed(calls[c].agentType, "Operation was cancelled")
            /\ ~calls[c].validation.called
            /\ calls[c].executeCalls = 0

\* a cancelled call for an agent whose validateContext would have rejected the context
C7_Witness ==
    \E c \in CallIds :
        /\ calls[c].pc = "returned"
        /\ calls[c].cancelled
        /\ calls[c].agentType = "bughunter"
        /\ ~BugHunterAgent_validateContext(calls[c].context).valid

\* C8: when the agent's validateContext returns valid=false, executeAgent
\* returns at once a failed result whose error is the stated reason, and
\* agent.execute is never called.
C8_InvalidContextNotExecuted ==
    \A c \in CallIds :
        (calls[c].validation.called /\ ~calls[c].validation.v.valid) =>
            /\ calls[c].pc = "returned"
            /\ calls[c].result = Failed(calls[c].agentType, calls[c].validation.v.reason)
            /\ calls[c].executeCalls = 0

\* a call whose context failed validation has returned
C8_Witness ==
    \E c \in CallIds :
        /\ calls[c].pc = "returned"
        /\ calls[c].validation.called
        /\ ~calls[c].validation.v.valid
        /\ calls[c].result.error = "No code available for analysis"

\* C9: validateContext returns valid=false with a non-empty reason whenever
\* a field listed in requiresContext of one of the agent's capabilities is
\* absent from the context, and valid=true otherwise.
C9_ValidateChecksRequiredFields ==
    \A c \in CallIds :
        calls[c].validation.called =>
            /\ calls[c].validation.v.valid =
                   (RequiredFields(calls[c].agentType) \subseteq PresentFields(calls[c].context))
            /\ ~calls[c].validation.v.valid => calls[c].validation.v.reason # ""

\* C10: every registered agent defines execute, getCapabilities,
\* validateContext and getStatus, and no call for a registered agent type
\* fails because an operation of the contract is missing.
C10_AgentsImplementContract ==
    /\ \A a \in DOMAIN agents : ContractOperations \subseteq agents[a]
    /\ \A c \in CallIds :
          Registered(calls[c].agentType) =>
              calls[c].raised # "agent.execute is not a function"

(***************************************************************************)
(* Specification SpecPrivacy: the PrivacyManager under its clients' calls  *)
(***************************************************************************)
othersOfPrivacy == <<history, activeAgent, calls, chain, agents, lastRun,
                     now, requestTimestamps, requestCount, lastResponse,
                     agentStatus, runs, agentLog, callLog, suggestion, synthesis, laterVars>>

InitP == InitPrivacy /\ InitOrchestrator /\ InitRest

CallSetPrivacyMode ==
    \E m \in PrivacyMode : setPrivacyMode(m) /\ UNCHANGED othersOfPrivacy

CallAddExcludedFile ==
    \E f \in ExcludableFiles : addExcludedFile(f) /\ UNCHANGED othersOfPrivacy

CallAddExcludedDirectory ==
    \E d \in ExcludableDirectories : addExcludedDirectory(d) /\ UNCHANGED othersOfPrivacy

CallRemoveExcludedFile ==
    \E f \in ExcludableFiles : removeExcludedFile(f) /\ UNCHANGED othersOfPrivacy

CallRemoveExcludedDirectory ==
    \E d \in ExcludableDirectories : removeExcludedDirectory(d) /\ UNCHANGED othersOfPrivacy

CallCanProcessContext ==
    \E context \in GateContexts : EvalContext(context) /\ UNCHANGED othersOfPrivacy

CallCanProcessRequest ==
    \E request \in GateRequests : EvalRequest(request) /\ UNCHANGED othersOfPrivacy

NextP ==
    \/ CallSetPrivacyMode
    \/ CallAddExcludedFile
    \/ CallAddExcludedDirectory
    \/ CallRemoveExcludedFile
    \/ CallRemoveExcludedDirectory
    \/ CallCanProcessContext
    \/ CallCanProcessRequest

SpecPrivacy == InitP /\ [][NextP]_vars

\* C2: in ENHANCED and MAXIMUM mode every canProcessContext / canProcessRequest
\* call on a text that matches a sensitive-data pattern returns false, at
\* every call of any sequence of calls.
C2_SensitiveTextRejected ==
    (/\ lastEval.kind # "none"
     /\ lastEval.mode \in {ENHANCED, MAXIMUM}
     /\ MatchesSensitivePattern(lastEval.text))
        => ~lastEval.ok

C3_Step ==
    (/\ lastEval.kind # "none"
     /\ lastEval'.kind = lastEval.kind
     /\ lastEval'.input = lastEval.input
     /\ ModeRank(lastEval.mode) < ModeRank(lastEval'.mode)
     /\ ~lastEval.ok)
        => ~lastEval'.ok

\* C3: with the exclusion lists unchanged, an input rejected in a mode is
\* rejected again when it is evaluated in a stricter mode.
C3_MonotoneInMode == [][C3_Step]_vars

\* the path is in the excluded-file list or starts with an excluded directory
InOrUnderExcludedPath(path) ==
    \/ \E k \in 1..Len(excludedFiles) : excludedFiles[k] = path
    \/ \E k \in 1..Len(excludedDirectories) :
            /\ Len(excludedDirectories[k]) <= Len(path)
            /\ \A j \in 1..Len(excludedDirectories[k]) : path[j] = excludedDirectories[k][j]

C16_RequestFromExcludedPathRejected ==
    (/\ lastEval.kind = "request"
     /\ lastEval.mode \in {ENHANCED, MAXIMUM}
     /\ InOrUnderExcludedPath(lastEval.input.currentFile))
        => ~lastEval.ok

\* C17: in MAXIMUM mode a request or context whose file name contains
\* 'secret', 'password' or 'credential' (in any case) or ends with '.env' is
\* rejected, with no pattern match and no exclusion needed; in ENHANCED mode
\* a rejection always has a pattern match or an excluded path behind it.
C17_FileNameVeto ==
    /\ (/\ lastEval.kind # "none"
        /\ lastEval.mode = MAXIMUM
        /\ SensitiveFileName(lastEval.input.currentFile))
            => ~lastEval.ok
    /\ (/\ lastEval.kind # "none"
        /\ lastEval.mode = ENHANCED
        /\ ~lastEval.ok)
            => \/ MatchesSensitivePattern(lastEval.text)
               \/ InOrUnderExcludedPath(lastEval.input.currentFile)

(***************************************************************************)
(* DevMindManager.runAgent and QwenLLMProvider.sendRequest                 *)
(***************************************************************************)
\* variant: the agent is dispatched whatever the privacy verdict
RunAgentProceeds_Always(ok) == TRUE

\* runAgent goes on to executeAgent only when canProcessContext returned true
RunAgentProceeds(ok) == ok

\* runAgent from its entry to the await of executeAgent, with currentContext
\* the merged context
runAgent(c, a, currentContext) ==
    /\ calls[c].pc = "idle"
    /\ HistoryHasRoom
    /\ LET r == canProcessContext(currentContext, mode, excludedFiles,
                                  excludedDirectories, lastIndex)
           call == BeginCall(agents, "runAgent", a, currentContext, FALSE)
       IN  /\ lastIndex' = r.li
           /\ lastEval' = [kind |-> "context", input |-> currentContext,
                           text |-> currentContext.surroundingCode,
                           mode |-> mode, ok |-> r.ok]
           /\ IF RunAgentProceeds(r.ok)
              THEN /\ calls' = [calls EXCEPT ![c] = call]
                   /\ history' = history \o Pushed(IdleCall, call)
                   /\ activeAgent' = ActiveAfter(call)
              ELSE UNCHANGED <<calls, history, activeAgent>>
           /\ lastRun' = [kind |-> "run", allowed |-> r.ok,
                          dispatched |-> calls' # calls,
                          recorded |-> Len(history') - Len(history)]
    /\ UNCHANGED <<mode, excludedFiles, excludedDirectories, chain, agents>>

\* runAgent resumes with the result of executeAgent
RunAgentResumes(c) ==
    /\ calls[c].pc = "returned"
    /\ calls[c].owner = "runAgent"
    /\ calls' = [calls EXCEPT ![c] = IdleCall]
    /\ UNCHANGED <<history, activeAgent, chain, agents>>

MAX_REQUESTS_PER_MINUTE == 60
RateWindowMs == 60000
retries == 3

\* Array.prototype.filter(timestamp => timestamp > oneMinuteAgo)
RecentTimestamps(ts, t) == SelectSeq(ts, LAMBDA x : x > t - RateWindowMs)

\* variant: the request is sent whatever the privacy verdict
SendRequestProceeds_Always(ok) == TRUE

\* sendRequest goes on to the rate-limit check only when canProcessRequest
\* returned true
SendRequestProceeds(ok) == ok

\* sendRequest(prompt): the privacy check, the rate-limit check, then the
\* HTTP attempts of makeRequest: failed retryable attempts followed by a last
\* attempt that succeeds ("ok"), fails for good ("fatal"), or is the failure
\* that exhausts the retries ("retryable").
sendRequest(prompt, failedAttempts, last) ==
    LET request == Req(prompt, NoFile)
        r == canProcessRequest(request, mode, excludedFiles, excludedDirectories, lastIndex)
        recent == RecentTimestamps(requestTimestamps, now)
    IN  /\ failedAttempts \in 0..retries
        /\ last \in {"ok", "fatal", "retryable"}
        /\ last = "retryable" => failedAttempts = retries
        /\ lastIndex' = r.li
        /\ lastEval' = [kind |-> "request", input |-> request, text |-> prompt,
                        mode |-> mode, ok |-> r.ok]
        /\ IF ~SendRequestProceeds(r.ok)
           THEN /\ lastResponse' = [kind |-> "response", allowed |-> r.ok, success |-> FALSE,
                                    error |-> "Request blocked by privacy settings",
                                    attempts |-> 0]
                /\ UNCHANGED <<requestTimestamps, requestCount>>
           ELSE IF ~(Len(recent) < MAX_REQUESTS_PER_MINUTE)
           THEN /\ lastResponse' = [kind |-> "response", allowed |-> r.ok, success |-> FALSE,
                                    error |-> "Rate limit exceeded. Please wait before making more requests.",
                                    attempts |-> 0]
                /\ requestTimestamps' = recent
                /\ UNCHANGED requestCount
           ELSE IF last = "ok"
           THEN /\ lastResponse' = [kind |-> "response", allowed |-> r.ok, success |-> TRUE,
                                    error |-> "", attempts |-> failedAttempts + 1]
                /\ requestTimestamps' = Append(recent, now)
                /\ requestCount' = requestCount + 1
           ELSE /\ lastResponse' = [kind |-> "response", allowed |-> r.ok, success |-> FALSE,
                                    error |-> "request failed",
                                    attempts |-> failedAttempts + 1]
                /\ requestTimestamps' = recent
                /\ UNCHANGED requestCount
        /\ UNCHANGED <<mode, excludedFiles, excludedDirectories, now>>

(***************************************************************************)
(* Specification SpecGate: commands run agents through runAgent, agents    *)
(* send prompts through sendRequest, the privacy mode changes.             *)
(***************************************************************************)
C_secret == Ctx(P_app, T_pw, {"language"}, 0)

GateAgents == {"bughunter"}
RunContexts == {C_code, C_secret}
Prompts == {T_plain, T_pw}

InitG ==
    /\ InitOrchestrator
    /\ InitRest
    /\ mode \in PrivacyMode
    /\ excludedFiles = <<>>
    /\ excludedDirectories = <<>>
    /\ lastIndex = [i \in 1..NumPatterns |-> 0]
    /\ lastEval = NoEval

CommandRunsAgent ==
    \E a \in GateAgents, context \in RunContexts :
        /\ runAgent(DirectCall, a, context)
        /\ UNCHANGED <<now, requestTimestamps, requestCount, lastResponse>>
        /\ UNCHANGED <<agentVars, obsVars, laterVars>>

GateAgentExecuteDone ==
    \E outcome \in {"success", "failure"} :
        AgentExecuteSettles(DirectCall, outcome) /\ UNCHANGED othersOfOrch

GateAuditLogDone == LogAgentExecutionSettles(DirectCall) /\ UNCHANGED othersOfOrch

RunAgentDone == RunAgentResumes(DirectCall) /\ UNCHANGED othersOfOrch

GateClearHistory == clearHistory /\ UNCHANGED othersOfOrch

AgentSendsRequest ==
    \E prompt \in Prompts, failedAttempts \in 0..retries, last \in {"ok", "fatal", "retryable"} :
        /\ requestCount < MaxRequests
        /\ sendRequest(prompt, failedAttempts, last)
        /\ UNCHANGED <<history, activeAgent, calls, chain, agents, lastRun>>
        /\ UNCHANGED <<agentVars, obsVars, laterVars>>

GateSetPrivacyMode ==
    \E m \in {ENHANCED, MAXIMUM} : setPrivacyMode(m) /\ UNCHANGED othersOfPrivacy

NextG ==
    \/ CommandRunsAgent
    \/ GateAgentExecuteDone
    \/ GateAuditLogDone
    \/ RunAgentDone
    \/ GateClearHistory
    \/ AgentSendsRequest
    \/ GateSetPrivacyMode

SpecGate == InitG /\ [][NextG]_vars

\* C4: when canProcessContext returns false, runAgent does not call
\* executeAgent (no call starts, no history record); when canProcessRequest
\* returns false, sendRequest makes no HTTP attempt and returns the error
\* 'Request blocked by privacy settings'.
C4_NothingLeavesWhenBlocked ==
    /\ (lastRun.kind = "run" /\ ~lastRun.allowed) =>
            (~lastRun.dispatched /\ lastRun.recorded = 0)
    /\ (lastResponse.kind = "response" /\ ~lastResponse.allowed) =>
            /\ lastResponse.attempts = 0
            /\ ~lastResponse.success
            /\ lastResponse.error = "Request blocked by privacy settings"

\* a blocked runAgent and a blocked sendRequest have both happened
C4_Witness ==
    /\ lastRun.kind = "run"
    /\ ~lastRun.allowed
    /\ lastResponse.kind = "response"
    /\ ~lastResponse.allowed

(***************************************************************************)
(* Specification SpecAgent: callers invoke execute on the agent instances, *)
(* completion calls settle, time passes.                                   *)
(***************************************************************************)
othersOfAgents == <<mode, excludedFiles, excludedDirectories, lastIndex, lastEval,
                    history, activeAgent, calls, chain, agents, lastRun,
                    requestTimestamps, requestCount, lastResponse, callLog, suggestion, synthesis, laterVars>>

RunAgents == {"bughunter", "gitmate", "devflow"}

RECURSIVE SumLen(_, _)
SumLen(log, S) ==
    IF S = {} THEN 0
    ELSE LET a == CHOOSE x \in S : TRUE
         IN  Len(log[a]) + SumLen(log, S \ {a})

\* the number of execute calls entered so far
Entered ==
    SumLen(agentLog, ExecutingAgents) + Cardinality({r \in RunIds : runs[r].pc = "awaiting"})

CallExecute ==
    \E r \in RunIds, a \in RunAgents, cancelled \in BOOLEAN, flag \in BOOLEAN :
        /\ runs[r].pc = "idle"
        /\ Entered < MaxExecutions
        /\ CASE a \in StatusAgents -> ~flag /\ StatusAgentExecute(r, a, cancelled)
             [] a = "gitmate" ->
                    \E streamClosed \in BOOLEAN :
                        GitMateAgentExecute(r, cancelled, flag, streamClosed)
             [] a = "devflow" -> DevFlowAgentExecute(r, cancelled, flag)
        /\ UNCHANGED <<now, othersOfAgents>>

CompletionCallSettles ==
    \E r \in RunIds, outcome \in {"content", "failed", "throws", "unparsable"} :
        CompletionSettles(r, outcome) /\ UNCHANGED <<now, othersOfAgents>>

ExecuteResultTaken ==
    \E r \in RunIds : RunTaken(r) /\ UNCHANGED <<now, othersOfAgents>>

TimePasses ==
    /\ now < MaxTime
    /\ now' = now + 1
    /\ UNCHANGED <<agentVars, othersOfAgents>>

NextA ==
    \/ CallExecute
    \/ CompletionCallSettles
    \/ ExecuteResultTaken
    \/ TimePasses

SpecAgent == Init /\ [][NextA]_vars

C11_ExecutingOnlyInProgress ==
    \A a \in StatusAgents :
        agentStatus[a].isExecuting =>
            \E r \in RunIds : runs[r].pc = "awaiting" /\ runs[r].agentType = a

C11_ResetOnReturn ==
    \A r \in RunIds :
        (/\ runs[r].pc = "awaiting"
         /\ runs[r].agentType \in StatusAgents
         /\ runs'[r].pc \in {"returned", "threw"})
            => ~agentStatus'[runs[r].agentType].isExecuting

\* C11: an agent's isExecuting is true only while one of its execute calls
\* is in progress, and is false when execute returns, on every exit path
\* (result, failed completion, rejected completion, throwing parser).
C11_IsExecutingReset == []C11_ExecutingOnlyInProgress /\ [][C11_ResetOnReturn]_vars

\* an execute of BugHunterAgent has returned through its catch block (the
\* completion call or the parser threw) and isExecuting is false
C11_Witness ==
    /\ \E r \in RunIds :
          /\ runs[r].pc = "returned"
          /\ runs[r].agentType = "bughunter"
          /\ runs[r].completion \in {"throws", "unparsable"}
    /\ agentStatus["bughunter"].errorCount > 0
    /\ ~agentStatus["bughunter"].isExecuting

RECURSIVE SumSeq(_)
SumSeq(q) == IF q = <<>> THEN 0 ELSE Head(q) + SumSeq(Tail(q))

\* C12: after every execute call, successful or failed, exactly one of
\* successCount / errorCount has grown by one and averageExecutionTime has
\* been updated with the call's duration, so that averageExecutionTime is
\* the arithmetic mean of the durations of all n = successCount + errorCount
\* executions.
C12_AverageIsMean ==
    \A a \in StatusAgents :
        LET n == agentStatus[a].successCount + agentStatus[a].errorCount
        IN  /\ n = Len(agentLog[a])
            /\ n > 0 => agentStatus[a].avgNum * n = SumSeq(agentLog[a]) * agentStatus[a].avgDen

\* C13: an execute entered with cancellation already requested issues no
\* completion call and returns a 'cancelled' result.
C13_CancelledBeforeCompletion ==
    \A r \in RunIds :
        (runs[r].pc # "idle" /\ runs[r].cancelled) =>
            /\ runs[r].completionCalls = 0
            /\ runs[r].pc = "returned"
            /\ ~runs[r].result.success
            /\ runs[r].result.error = "cancelled"

\* C14: no exception escapes execute of a registered agent, and a failure of
\* the completion call or of a step inside execute yields a returned result
\* with success=false.
C14_AgentsConvertFailures ==
    \A r \in RunIds :
        /\ runs[r].pc # "threw"
        /\ (runs[r].pc = "returned" /\ runs[r].completion \in {"failed", "throws", "unparsable"})
                => ~runs[r].result.success

(***************************************************************************)
(* Specification SpecHistory: two callers of executeAgent whose calls      *)
(* interleave, clearHistory and getExecutionStats.                         *)
(***************************************************************************)
\* Array.prototype.filter(e => e.success).length
CountSuccess(list) == Cardinality({k \in 1..Len(list) : list[k].success})

\* getExecutionStats(): successRate is kept as a fraction
getExecutionStats(executionHistory) ==
    LET total == Len(executionHistory)
        successful == CountSuccess(executionHistory)
    IN  [totalExecutions |-> total,
         successfulExecutions |-> successful,
         failedExecutions |-> total - successful,
         successRate |-> IF total > 0 THEN Fraction(successful * 100, total)
                                      ELSE Fraction(0, 1)]

othersOfHistory == <<mode, excludedFiles, excludedDirectories, lastIndex, lastEval,
                     lastRun, now, requestTimestamps, requestCount, lastResponse,
                     agentStatus, runs, agentLog, suggestion, synthesis, laterVars>>

HistoryAgents == {"bughunter", "gitmate"}

\* the calls that return in this step, observed
ReturnedNow == {c \in CallIds : calls[c].pc # "returned" /\ calls'[c].pc = "returned"}

ObserveReturns ==
    callLog' = IF ReturnedNow = {} THEN callLog
               ELSE LET c == CHOOSE x \in ReturnedNow : TRUE
                    IN  [callLog EXCEPT !.returned = Append(@, calls'[c].result.success)]

ConcurrentCallExecuteAgent ==
    \E c \in CallIds, a \in HistoryAgents, cancelled \in BOOLEAN :
        /\ Len(callLog.started) < MaxCalls
        /\ executeAgent(c, a, C_code, cancelled)
        /\ callLog' = [callLog EXCEPT
                !.started = Append(@, a),
                !.returned = IF calls'[c].pc = "returned"
                             THEN Append(@, calls'[c].result.success) ELSE @]
        /\ UNCHANGED othersOfHistory

ConcurrentAgentExecuteDone ==
    \E c \in CallIds, outcome \in {"success", "failure", "throw"} :
        AgentExecuteSettles(c, outcome) /\ ObserveReturns /\ UNCHANGED othersOfHistory

ConcurrentAuditLogDone ==
    \E c \in CallIds :
        LogAgentExecutionSettles(c) /\ ObserveReturns /\ UNCHANGED othersOfHistory

ConcurrentCallerTakesResult ==
    \E c \in CallIds : TakeResult(c) /\ UNCHANGED <<callLog, othersOfHistory>>

ConcurrentClearHistory ==
    /\ clearHistory
    /\ callLog' = [NoCallLog EXCEPT !.clean = (InFlight = {})]
    /\ UNCHANGED othersOfHistory

NextH ==
    \/ ConcurrentCallExecuteAgent
    \/ ConcurrentAgentExecuteDone
    \/ ConcurrentAuditLogDone
    \/ ConcurrentCallerTakesResult
    \/ ConcurrentClearHistory

SpecHistory == Init /\ [][NextH]_vars

\* C18: after N executeAgent calls of which S returned success=true, with no
\* clearHistory in between, getExecutionStats reports totalExecutions = N and
\* successRate = (S / N) * 100, and successRate 0 when N = 0.
C18_StatsCountEveryCall ==
    (callLog.clean /\ InFlight = {}) =>
        LET stats == getExecutionStats(history)
            N == Len(callLog.returned)
            S == Cardinality({k \in 1..N : callLog.returned[k]})
        IN  /\ stats.totalExecutions = N
            /\ stats.successRate.num * N = S * 100 * stats.successRate.den
            /\ N = 0 => stats.successRate.num = 0

C19_Step ==
    \/ history' = history
    \/ history' = <<>> /\ calls' = calls
    \/ \E c \in CallIds :
          /\ calls[c].pc \in {"idle", "executing"}
          /\ calls'[c].pc = "logging"
          /\ history' = Append(history, Execution(calls'[c].agentType, calls'[c].result.success))

SuggestionContexts ==
    [isArchitecturalFile : BOOLEAN,
     architecturalPatterns : {0, 1},
     projectFiles : {0, 11},
     complexity : {0, 16, 21},
     selectedText : {"", "x"},
     hasErrors : BOOLEAN,
     hasWarnings : BOOLEAN,
     currentFunction : BOOLEAN,
     currentClass : BOOLEAN,
     docComment : BOOLEAN,
     missingDocumentation : BOOLEAN,
     hasGitChanges : BOOLEAN,
     uncommittedChanges : {0, 6},
     recentCommits : {0, 1},
     isConfigFile : BOOLEAN,
     configFiles : {"none", "withoutCI", "withCI"}]

Weight(condition, tenths) == IF condition THEN tenths ELSE 0

ArchitectConfidence(context) ==
      Weight(context.isArchitecturalFile, 4)
    + Weight(context.architecturalPatterns = 0 /\ context.projectFiles > 10, 3)
    + Weight(context.complexity > 15, 2)

CodeSmithConfidence(context) ==
      Weight(Len(context.selectedText) > 0, 3)
    + Weight(~context.hasErrors /\ ~context.hasWarnings, 2)
    + Weight(context.currentFunction, 2)

\* variant: compilation errors weigh 0.6
BugHunterConfidence_HeavyErrors(context) ==
      Weight(context.hasErrors, 6)
    + Weight(context.hasWarnings, 3)
    + Weight(context.complexity > 20, 2)

BugHunterConfidence(context) ==
      Weight(context.hasErrors, 5)
    + Weight(context.hasWarnings, 3)
    + Weight(context.complexity > 20, 2)

DocGuruConfidence(context) ==
      Weight(context.missingDocumentation, 4)
    + Weight(context.currentFunction /\ ~context.docComment, 3)
    + Weight(context.currentClass /\ ~context.docComment, 3)

GitMateConfidence(context) ==
      Weight(context.hasGitChanges, 4)
    + Weight(context.uncommittedChanges > 5, 3)
    + Weight(context.recentCommits = 0, 2)

DevFlowConfidence(context) ==
      Weight(context.isConfigFile, 4)
    + Weight(context.configFiles = "none", 3)
    + Weight(context.configFiles # "withCI", 2)

Suggestion(a, confidence) == [agentType |-> a, confidence |-> confidence]

\* Array.prototype.sort((a, b) => b.confidence - a.confidence): stable,
\* descending
RECURSIVE InsertByConfidence(_, _)
InsertByConfidence(sorted, s) ==
    IF sorted = <<>> THEN <<s>>
    ELSE IF Head(sorted).confidence >= s.confidence
         THEN <<Head(sorted)>> \o InsertByConfidence(Tail(sorted), s)
         ELSE <<s>> \o sorted

RECURSIVE SortByConfidence(_)
SortByConfidence(list) ==
    IF list = <<>> THEN <<>>
    ELSE InsertByConfidence(SortByConfidence(SubSeq(list, 1, Len(list) - 1)),
                            list[Len(list)])

getAllAgentSuggestions(context) ==
    SortByConfidence(<<Suggestion("architect", ArchitectConfidence(context)),
                       Suggestion("codesmith", CodeSmithConfidence(context)),
                       Suggestion("bughunter", BugHunterConfidence(context)),
                       Suggestion("docguru", DocGuruConfidence(context)),
                       Suggestion("gitmate", GitMateConfidence(context)),
                       Suggestion("devflow", DevFlowConfidence(context))>>)

\* the callback of reduce: a later entry replaces the best one only when its
\* confidence is strictly greater
\* variant: a later entry of equal confidence replaces it too
MoreConfident_LastWins(best, current) ==
    IF current.confidence >= best.confidence THEN current ELSE best

MoreConfident(best, current) ==
    IF current.confidence > best.confidence THEN current ELSE best

\* Array.prototype.reduce without an initial value
RECURSIVE ReduceFrom(_, _)
ReduceFrom(best, rest) ==
    IF rest = <<>> THEN best
    ELSE ReduceFrom(MoreConfident(best, Head(rest)), Tail(rest))

suggestAgent(context) ==
    LET suggestions == getAllAgentSuggestions(context)
    IN  ReduceFrom(Head(suggestions), Tail(suggestions))

othersOfSuggest == <<mode, excludedFiles, excludedDirectories, lastIndex, lastEval,
                     lastRun, now, requestTimestamps, requestCount, lastResponse,
                     agentStatus, runs, agentLog, callLog, synthesis, laterVars>>

\* the call is synchronous: one result is outstanding until its caller has it
CallGetAllAgentSuggestions ==
    /\ suggestion = NoSuggestion
    /\ \E context \in SuggestionContexts :
          suggestion' = [kind |-> "suggestions", context |-> context,
                         suggestions |-> getAllAgentSuggestions(context)]
    /\ UNCHANGED <<orchVars, othersOfSuggest>>

SuggestionsTaken ==
    /\ suggestion # NoSuggestion
    /\ suggestion' = NoSuggestion
    /\ UNCHANGED <<orchVars, othersOfSuggest>>

CallSuggestAgent ==
    /\ suggestion = NoSuggestion
    /\ \E context \in SuggestionContexts :
          suggestion' = [kind |-> "best", context |-> context,
                         suggestions |-> getAllAgentSuggestions(context),
                         best |-> suggestAgent(context)]
    /\ UNCHANGED <<orchVars, othersOfSuggest>>

NextS == CallGetAllAgentSuggestions \/ CallSuggestAgent \/ SuggestionsTaken

SpecSuggest == Init /\ [][NextS]_vars

\* C20: each of the six per-agent scores returned by getAllAgentSuggestions,
\* one for every agent type, lies between 0 and 1 (10 tenths) inclusive.
C20_ScoresWithinUnitInterval ==
    suggestion.kind = "suggestions" =>
        /\ Len(suggestion.suggestions) = 6
        /\ {suggestion.suggestions[k].agentType : k \in 1..6} = DOMAIN initializeAgents
        /\ \A k \in 1..6 : /\ suggestion.suggestions[k].confidence >= 0
                           /\ suggestion.suggestions[k].confidence <= 10

\* a context with errors, warnings and very high complexity and nothing to
\* generate from: bughunter scores 1.0 and codesmith 0
C20_Witness ==
    /\ suggestion.kind = "suggestions"
    /\ suggestion.context.hasErrors /\ suggestion.context.hasWarnings
    /\ suggestion.context.complexity > 20
    /\ suggestion.suggestions[1] = Suggestion("bughunter", 10)
    /\ suggestion.suggestions[6] = Suggestion("codesmith", 0)

\* the order in which getAllAgentSuggestions evaluates the agent types
C21_EvaluationOrder == <<"architect", "codesmith", "bughunter", "docguru", "gitmate", "devflow">>

C21_ScoreOf(a, context) ==
    CASE a = "architect" -> ArchitectConfidence(context)
      [] a = "codesmith" -> CodeSmithConfidence(context)
      [] a = "bughunter" -> BugHunterConfidence(context)
      [] a = "docguru" -> DocGuruConfidence(context)
      [] a = "gitmate" -> GitMateConfidence(context)
      [] a = "devflow" -> DevFlowConfidence(context)

\* C21: getAllAgentSuggestions returns all six agent types in order of
\* non-increasing score; suggestAgent returns an entry with the maximum score,
\* and among the agents tied at the maximum the one evaluated first in the
\* order architect, codesmith, bughunter, docguru, gitmate, devflow.
C21_RankedAndFirstOfTies ==
    suggestion.kind \in {"suggestions", "best"} =>
        LET list == suggestion.suggestions
            context == suggestion.context
        IN  /\ Len(list) = 6
            /\ {list[k].agentType : k \in 1..6} = DOMAIN initializeAgents
            /\ \A k \in 1..5 : list[k].confidence >= list[k + 1].confidence
            /\ suggestion.kind = "best" =>
                 LET maximum == CHOOSE m \in 0..10 :
                         /\ \E a \in DOMAIN initializeAgents : C21_ScoreOf(a, context) = m
                         /\ \A a \in DOMAIN initializeAgents : C21_ScoreOf(a, context) <= m
                     first == CHOOSE k \in 1..6 :
                         /\ C21_ScoreOf(C21_EvaluationOrder[k], context) = maximum
                         /\ \A j \in 1..(k - 1) :
                                C21_ScoreOf(C21_EvaluationOrder[j], context) < maximum
                 IN  /\ suggestion.best.confidence = maximum
                     /\ suggestion.best.agentType = C21_EvaluationOrder[first]

\* codesmith and gitmate are tied at the maximum and codesmith is returned
C21_Witness ==
    /\ suggestion.kind = "best"
    /\ suggestion.best = Suggestion("codesmith", 7)
    /\ suggestion.suggestions[2] = Suggestion("gitmate", 7)

\* the context that carries hasErrors = true and nothing else
C22_OnlyHasErrors(context) ==
    /\ context.hasErrors
    /\ ~context.isArchitecturalFile
    /\ context.architecturalPatterns = 0 /\ context.projectFiles = 0
    /\ context.complexity = 0
    /\ context.selectedText = ""
    /\ ~context.hasWarnings /\ ~context.currentFunction /\ ~context.currentClass
    /\ ~context.docComment /\ ~context.missingDocumentation
    /\ ~context.hasGitChanges
    /\ context.uncommittedChanges = 0 /\ context.recentCommits = 0
    /\ ~context.isConfigFile /\ context.configFiles = "none"

LimbBase == 2^15

\* the double nearest to a decimal literal of the source, given in hundredths
Double(hundredths) ==
    CASE hundredths = 0 -> <<0, 0, 0, 0>>
      [] hundredths = 5 -> <<6554, 13107, 26214, 204>>
      [] hundredths = 10 -> <<13108, 26214, 19660, 409>>
      [] hundredths = 15 -> <<19660, 6553, 13107, 614>>
      [] hundredths = 30 -> <<6552, 13107, 26214, 1228>>
      [] hundredths = 60 -> <<13104, 26214, 19660, 2457>>
      [] hundredths = 70 -> <<26208, 19660, 6553, 2867>>
      [] hundredths = 80 -> <<6560, 13107, 26214, 3276>>
      [] hundredths = 85 -> <<13104, 26214, 19660, 3481>>
      [] hundredths = 90 -> <<19664, 6553, 13107, 3686>>
      [] hundredths = 95 -> <<26208, 19660, 6553, 3891>>

\* carries and borrows propagated through the limbs
Normalize(raw) ==
    LET l1 == raw[1] % LimbBase
        c1 == (raw[1] - l1) \div LimbBase
        l2 == (raw[2] + c1) % LimbBase
        c2 == (raw[2] + c1 - l2) \div LimbBase
        l3 == (raw[3] + c2) % LimbBase
        c3 == (raw[3] + c2 - l3) \div LimbBase
    IN  <<l1, l2, l3, raw[4] + c3>>

ExactSum(x, y) == Normalize(<<x[1] + y[1], x[2] + y[2], x[3] + y[3], x[4] + y[4]>>)

ExactDifference(x, y) == Normalize(<<x[1] - y[1], x[2] - y[2], x[3] - y[3], x[4] - y[4]>>)

\* the exact quotient by a small integer: its integer part and the remainder
ExactQuotient(x, n) ==
    LET q4 == x[4] \div n
        r4 == x[4] % n
        q3 == (r4 * LimbBase + x[3]) \div n
        r3 == (r4 * LimbBase + x[3]) % n
        q2 == (r3 * LimbBase + x[2]) \div n
        r2 == (r3 * LimbBase + x[2]) % n
        q1 == (r2 * LimbBase + x[1]) \div n
        r1 == (r2 * LimbBase + x[1]) % n
    IN  [quotient |-> <<q1, q2, q3, q4>>, remainder |-> r1]

DoubleLess(x, y) ==
    \E k \in 1..4 : x[k] < y[k] /\ \A j \in (k + 1)..4 : x[j] = y[j]

\* the spacing of the doubles around x: 2^-52 times the power of two below x
RECURSIVE SpacingFrom(_, _)
SpacingFrom(top, power) ==
    IF top < 2 * power THEN 1 ELSE 2 * SpacingFrom(top, 2 * power)

Spacing(x) == SpacingFrom(x[4], 2^7)

\* round to nearest, ties to even, of x + num/den units
RoundToDouble(x, num, den) ==
    LET g == Spacing(x)
        low == x[1] % g
        down == <<x[1] - low, x[2], x[3], x[4]>>
        up == ExactSum(down, <<g, 0, 0, 0>>)
        twice == 2 * (low * den + num)
    IN  IF twice > g * den THEN up
        ELSE IF twice < g * den THEN down
        ELSE IF ((x[1] - low) \div g) % 2 = 1 THEN up ELSE down

DoubleAdd(x, y) == RoundToDouble(ExactSum(x, y), 0, 1)

DoubleSubtract(x, y) == RoundToDouble(ExactDifference(x, y), 0, 1)

DoubleDivide(x, n) ==
    LET exact == ExactQuotient(x, n)
    IN  RoundToDouble(exact.quotient, exact.remainder, n)

\* Math.min and Math.max
MathMin(x, y) == IF DoubleLess(y, x) THEN y ELSE x

MathMax(x, y) == IF DoubleLess(x, y) THEN y ELSE x

(***************************************************************************)
(* The synthesis step of the agents: the parsers that turn the text of a   *)
(* completion reply into an AgentResult, and their confidence values.      *)
(* A reply is a sequence of items: a line, written as the text before a    *)
(* marker, the marker and the trimmed text after it, or a fenced code      *)
(* block, written as the tag of its opening fence and the properties of    *)
(* its code that calculateCodeConfidence looks at.                         *)
(***************************************************************************)
Line(lead, marker, text) ==
    [kind |-> "line", lead |-> lead, marker |-> marker, text |-> text, fence |-> FALSE, tag |-> ""]

\* a line made of three backquotes and a tag
FenceLine(tag) ==
    [kind |-> "line", lead |-> "", marker |-> "", text |-> "", fence |-> TRUE, tag |-> tag]

CodeBlock(tag, code) == [kind |-> "code", tag |-> tag, code |-> code]

Code(documented, handlesErrors, tested, typed, flagged, size) ==
    [documented |-> documented, handlesErrors |-> handlesErrors, tested |-> tested,
     typed |-> typed, flagged |-> flagged, size |-> size]

\* the text of a piece of code
CodeText(code) ==
    CASE code.size = "empty" -> ""
      [] code.size = "short" -> "short code"
      [] code.size = "long" -> "long code"
      [] OTHER -> "code"

\* the line of code inside a code block
CodeLine(code) ==
    [kind |-> "codeline", lead |-> "", marker |-> "", text |-> CodeText(code), fence |-> FALSE,
     tag |-> "", code |-> code]

\* content.split('\n'): a code block is its opening fence, its code, its closing fence
RECURSIVE Lines(_)
Lines(content) ==
    IF content = <<>> THEN <<>>
    ELSE LET item == Head(content)
         IN  (IF item.kind = "line" THEN <<item>>
              ELSE <<FenceLine(item.tag), CodeLine(item.code), FenceLine("")>>)
             \o Lines(Tail(content))

\* the trimmed line as text; the three backquotes are written <fence>
LineText(line) ==
    IF line.fence THEN "<fence>" \o line.tag
    ELSE line.lead \o line.marker
         \o (IF line.marker # "" /\ line.text # "" THEN " " ELSE "") \o line.text

RECURSIVE Join(_)
Join(lines) ==
    IF lines = <<>> THEN ""
    ELSE IF Len(lines) = 1 THEN LineText(lines[1])
    ELSE LineText(lines[1]) \o "\n" \o Join(Tail(lines))

\* trimmedLine.toLowerCase().includes(marker), for one of the markers
IncludesOneOf(line, markers) ==
    \E m \in markers : toLowerCase(<<line.marker>>) = <<m>>

\* trimmedLine.replace(/^(marker|...)/i, '').trim()
WithoutPrefix(line, markers) ==
    IF line.lead = "" /\ IncludesOneOf(line, markers) THEN line.text ELSE LineText(line)

Falsy(value) == value \in {None, ""}

\* the severity keywords, in lower case, that a piece of text contains
WordsOf(text) ==
    CASE text = "critical error" -> {"critical", "error"}
      [] text = "Severe" -> {"severe"}
      [] text = "MAJOR warning" -> {"major", "warning"}
      [] text = "minor" -> {"minor"}
      [] text = "security" -> {"security"}
      [] text = "crash" -> {"crash"}
      [] text = "performance" -> {"performance"}
      [] OTHER -> {}

\* text.toLowerCase().includes(word), for one of the words
LowerTextIncludes(line, words) == (WordsOf(line.lead) \cup WordsOf(line.text)) \cap words # {}

\* ArchitectAgent.determineSeverity
ArchitectAgent_determineSeverity(line) ==
    IF LowerTextIncludes(line, {"critical", "severe"}) THEN "critical"
    ELSE IF LowerTextIncludes(line, {"error", "major"}) THEN "error"
    ELSE IF LowerTextIncludes(line, {"warning", "minor"}) THEN "warning"
    ELSE "info"

\* BugHunterAgent.determineSeverity
BugHunterAgent_determineSeverity(line) ==
    IF LowerTextIncludes(line, {"critical", "severe", "security"}) THEN "critical"
    ELSE IF LowerTextIncludes(line, {"error", "major", "crash"}) THEN "error"
    ELSE IF LowerTextIncludes(line, {"warning", "minor", "performance"}) THEN "warning"
    ELSE "info"

\* ArchitectAgent.calculateConfidence
ArchitectAgent_calculateConfidence(analysisResults, suggestions) ==
    LET totalFindings == Len(analysisResults) + Len(suggestions)
    IN  IF totalFindings = 0 THEN Double(30)
        ELSE IF totalFindings < 3 THEN Double(60)
        ELSE IF totalFindings < 6 THEN Double(80)
        ELSE Double(90)

NoAnalysis == [title |-> None, description |-> None, severity |-> None]

\* the loop of parseArchitecturalResponse over the lines
RECURSIVE ArchitectScan(_, _)
ArchitectScan(lines, acc) ==
    IF lines = <<>> THEN acc
    ELSE LET line == Head(lines)
             next ==
               IF IncludesOneOf(line, {"issue:", "problem:"})
               THEN [acc EXCEPT
                       !.analysisResults = IF Falsy(acc.currentAnalysis.title) THEN @
                                           ELSE Append(@, acc.currentAnalysis),
                       !.currentAnalysis = [title |-> WithoutPrefix(line, {"issue:", "problem:"}),
                                            description |-> None,
                                            severity |-> ArchitectAgent_determineSeverity(line)]]
               ELSE IF IncludesOneOf(line, {"recommendation:", "suggestion:"})
               THEN [acc EXCEPT !.suggestions =
                        Append(@, WithoutPrefix(line, {"recommendation:", "suggestion:"}))]
               ELSE IF IncludesOneOf(line, {"alternative:"})
               THEN [acc EXCEPT
                       !.alternatives = IF Falsy(acc.currentAlternative) THEN @
                                        ELSE Append(@, acc.currentAlternative),
                       !.currentAlternative = WithoutPrefix(line, {"alternative:"})]
               ELSE IF /\ ~Falsy(acc.currentAnalysis.title)
                       /\ Falsy(acc.currentAnalysis.description)
                       /\ LineText(line) # ""
               THEN [acc EXCEPT !.currentAnalysis.description = LineText(line)]
               ELSE acc
         IN  ArchitectScan(Tail(lines), next)

\* parseArchitecturalResponse; an alternative is kept as its title, and the
\* result has no codeChanges field, which reads as an empty list
parseArchitecturalResponse(content, analysisType) ==
    LET scanned == ArchitectScan(Lines(content),
                       [analysisResults |-> <<>>, suggestions |-> <<>>, alternatives |-> <<>>,
                        currentAnalysis |-> NoAnalysis, currentAlternative |-> None])
        analysisResults == IF Falsy(scanned.currentAnalysis.title) THEN scanned.analysisResults
                           ELSE Append(scanned.analysisResults, scanned.currentAnalysis)
        alternatives == IF Falsy(scanned.currentAlternative) THEN scanned.alternatives
                        ELSE Append(scanned.alternatives, scanned.currentAlternative)
    IN  [success |-> TRUE,
         agentType |-> "architect",
         message |-> "Architecture analysis complete. Found " \o ToString(Len(analysisResults))
                     \o " issues and " \o ToString(Len(scanned.suggestions)) \o " recommendations.",
         analysisResults |-> analysisResults,
         suggestions |-> scanned.suggestions,
         alternatives |-> alternatives,
         codeChanges |-> <<>>,
         confidence |-> ArchitectAgent_calculateConfidence(analysisResults, scanned.suggestions)]

\* BugHunterAgent.calculateDebuggingConfidence
calculateDebuggingConfidence(analysisResults, debugType) ==
    LET base == Double(70)
        some == IF Len(analysisResults) > 0 THEN DoubleAdd(base, Double(10)) ELSE base
        many == IF Len(analysisResults) > 2 THEN DoubleAdd(some, Double(10)) ELSE some
        confidence ==
            CASE debugType \in {"runtime_error", "type_error"} -> DoubleAdd(many, Double(10))
              [] debugType \in {"logic_error", "performance_issue"} -> DoubleAdd(many, Double(5))
              [] debugType = "security_vulnerability" -> DoubleAdd(many, Double(15))
              [] OTHER -> many
    IN  MathMax(Double(30), MathMin(Double(95), confidence))

NoFix == [description |-> None, confidence |-> None, newText |-> None]

BugFix == [description |-> "Bug fix based on analysis", confidence |-> Double(80), newText |-> ""]

\* the loop of parseDebuggingResponse over the lines
RECURSIVE BugHunterScan(_, _)
BugHunterScan(lines, acc) ==
    IF lines = <<>> THEN acc
    ELSE LET line == Head(lines)
             next ==
               IF IncludesOneOf(line, {"issue:", "bug:", "problem:"})
               THEN [acc EXCEPT
                       !.analysisResults = IF Falsy(acc.currentIssue.title) THEN @
                                           ELSE Append(@, acc.currentIssue),
                       !.currentIssue = [title |-> WithoutPrefix(line, {"issue:", "bug:", "problem:"}),
                                         description |-> None,
                                         severity |-> BugHunterAgent_determineSeverity(line)]]
               ELSE IF IncludesOneOf(line, {"fix:", "solution:"})
               THEN [acc EXCEPT !.suggestions = Append(@, WithoutPrefix(line, {"fix:", "solution:"}))]
               ELSE IF line.fence /\ 3 + Len(line.tag) > 3
               THEN [acc EXCEPT
                       !.codeChanges = IF Falsy(acc.currentFix.description) THEN @
                                       ELSE Append(@, acc.currentFix),
                       !.currentFix = BugFix]
               ELSE IF /\ ~Falsy(acc.currentIssue.title)
                       /\ Falsy(acc.currentIssue.description)
                       /\ LineText(line) # ""
               THEN [acc EXCEPT !.currentIssue.description = LineText(line)]
               ELSE acc
         IN  BugHunterScan(Tail(lines), next)

\* parseDebuggingResponse; an alternative is kept as its title
parseDebuggingResponse(content, debugType) ==
    LET scanned == BugHunterScan(Lines(content),
                       [analysisResults |-> <<>>, suggestions |-> <<>>, codeChanges |-> <<>>,
                        currentIssue |-> NoAnalysis, currentFix |-> NoFix])
        analysisResults == IF Falsy(scanned.currentIssue.title) THEN scanned.analysisResults
                           ELSE Append(scanned.analysisResults, scanned.currentIssue)
        codeChanges == IF Falsy(scanned.currentFix.description) THEN scanned.codeChanges
                       ELSE Append(scanned.codeChanges, scanned.currentFix)
    IN  [success |-> TRUE,
         agentType |-> "bughunter",
         message |-> "Debugging analysis complete. Found " \o ToString(Len(analysisResults))
                     \o " issues and " \o ToString(Len(scanned.suggestions)) \o " potential fixes.",
         analysisResults |-> analysisResults,
         suggestions |-> scanned.suggestions,
         alternatives |-> IF debugType = "performance_issue"
                          THEN <<"Quick Performance Fix", "Comprehensive Optimization">> ELSE <<>>,
         codeChanges |-> codeChanges,
         confidence |-> calculateDebuggingConfidence(analysisResults, debugType)]

\* CodeSmithAgent.calculateCodeConfidence
calculateCodeConfidence(code) ==
    LET base == Double(70)
        c1 == IF code.documented THEN DoubleAdd(base, Double(10)) ELSE base
        c2 == IF code.handlesErrors THEN DoubleAdd(c1, Double(10)) ELSE c1
        c3 == IF code.tested THEN DoubleAdd(c2, Double(10)) ELSE c2
        c4 == IF code.typed THEN DoubleAdd(c3, Double(5)) ELSE c3
        c5 == IF code.flagged THEN DoubleSubtract(c4, Double(10)) ELSE c4
        c6 == IF code.size = "short" THEN DoubleSubtract(c5, Double(10)) ELSE c5
        c7 == IF code.size = "long" THEN DoubleSubtract(c6, Double(5)) ELSE c6
    IN  MathMax(Double(30), MathMin(Double(95), c7))

\* codeChanges.reduce((sum, change) => sum + change.confidence, 0)
RECURSIVE SumConfidence(_, _)
SumConfidence(sum, codeChanges) ==
    IF codeChanges = <<>> THEN sum
    ELSE SumConfidence(DoubleAdd(sum, Head(codeChanges).confidence), Tail(codeChanges))

\* CodeSmithAgent.calculateOverallConfidence
calculateOverallConfidence(codeChanges, generationType) ==
    IF codeChanges = <<>> THEN Double(30)
    ELSE LET avgConfidence == DoubleDivide(SumConfidence(Double(0), codeChanges), Len(codeChanges))
         IN  CASE generationType = "completion" -> MathMin(Double(90), DoubleAdd(avgConfidence, Double(10)))
               [] generationType = "test_generation" -> MathMin(Double(85), avgConfidence)
               [] generationType \in {"optimization", "refactoring"} -> MathMin(Double(80), avgConfidence)
               [] OTHER -> avgConfidence

\* the language of the context, which the code block pattern accepts as tag
ContextLanguage == "ts"

\* the matches of the code block pattern in the lines from line from on, each
\* as the lines it captures: the pattern opens at three backquotes followed
\* by the end of the line or by context.language and the end of the line,
\* and closes at the first later line but one that starts with three backquotes
RECURSIVE CodeBlockMatches(_, _)
CodeBlockMatches(lines, from) ==
    LET closes(k) == {j \in (k + 2)..Len(lines) : lines[j].fence}
        opens == {k \in from..Len(lines) : /\ lines[k].fence
                                           /\ lines[k].tag \in {"", ContextLanguage}
                                           /\ closes(k) # {}}
    IN  IF opens = {} THEN <<>>
        ELSE LET k == CHOOSE x \in opens : \A y \in opens : x <= y
                 j == CHOOSE x \in closes(k) : \A y \in closes(k) : x <= y
             IN  <<SubSeq(lines, k + 1, j - 1)>> \o CodeBlockMatches(lines, j + 1)

\* match[1].trim(), line by line
RECURSIVE TrimLines(_)
TrimLines(lines) ==
    IF lines = <<>> THEN <<>>
    ELSE IF LineText(lines[1]) = "" THEN TrimLines(Tail(lines))
    ELSE IF LineText(lines[Len(lines)]) = "" THEN TrimLines(SubSeq(lines, 1, Len(lines) - 1))
    ELSE lines

\* what calculateCodeConfidence sees in the captured text: the code of the
\* first line of code in it, or a short text that is no code
CapturedCode(lines) ==
    LET coded == {k \in 1..Len(lines) : lines[k].kind = "codeline"}
    IN  IF coded = {} THEN Code(FALSE, FALSE, FALSE, FALSE, FALSE, "short")
        ELSE lines[CHOOSE k \in coded : \A h \in coded : k <= h].code

RECURSIVE CodeChangesFrom(_, _)
CodeChangesFrom(matches, generationType) ==
    IF matches = <<>> THEN <<>>
    ELSE LET code == TrimLines(Head(matches))
         IN  (IF code # <<>>
              THEN <<[description |-> "Generated " \o generationType \o " code",
                      confidence |-> calculateCodeConfidence(CapturedCode(code)),
                      newText |-> Join(code)]>>
              ELSE <<>>)
             \o CodeChangesFrom(Tail(matches), generationType)

\* the while loop over the matches: one code change per match whose trimmed
\* text is not empty
CodeChangesOf(content, generationType) ==
    CodeChangesFrom(CodeBlockMatches(Lines(content), 1), generationType)

\* the loop of parseCodeGenerationResponse over the lines
RECURSIVE CodeSmithScan(_, _)
CodeSmithScan(lines, acc) ==
    IF lines = <<>> THEN acc
    ELSE LET line == Head(lines)
             next ==
               IF IncludesOneOf(line, {"suggestion:", "tip:"})
               THEN [acc EXCEPT !.suggestions = Append(@, WithoutPrefix(line, {"suggestion:", "tip:"}))]
               ELSE IF IncludesOneOf(line, {"note:", "important:"})
               THEN [acc EXCEPT !.analysisResults =
                        Append(@, [title |-> "Code Generation Note",
                                   description |-> WithoutPrefix(line, {"note:", "important:"}),
                                   severity |-> "info"])]
               ELSE acc
         IN  CodeSmithScan(Tail(lines), next)

\* parseCodeGenerationResponse; an alternative is kept as its title
parseCodeGenerationResponse(content, generationType) ==
    LET codeChanges == CodeChangesOf(content, generationType)
        scanned == CodeSmithScan(Lines(content), [analysisResults |-> <<>>, suggestions |-> <<>>])
    IN  [success |-> TRUE,
         agentType |-> "codesmith",
         message |-> "Code generation complete. Generated " \o ToString(Len(codeChanges))
                     \o " code changes for " \o generationType \o ".",
         analysisResults |-> scanned.analysisResults,
         suggestions |-> scanned.suggestions,
         alternatives |-> IF generationType \in {"optimization", "refactoring"}
                          THEN <<"Conservative Approach">> ELSE <<>>,
         codeChanges |-> codeChanges,
         confidence |-> calculateOverallConfidence(codeChanges, generationType)]

(***************************************************************************)
(* Specification SpecSynthesis: the three parsers on replies of a few      *)
(* lines and on replies with many findings or many code blocks.            *)
(***************************************************************************)
IssueX == Line("", "Issue:", "X")
DescriptionD == Line("", "", "D")
SuggestionY == Line("", "Suggestion:", "Y")

GoodCode == Code(TRUE, TRUE, TRUE, TRUE, FALSE, "medium")
ShortCode == Code(FALSE, FALSE, FALSE, FALSE, FALSE, "short")

Codes ==
    {Code(d, h, t, ty, f, size) : d \in BOOLEAN, h \in BOOLEAN, t \in BOOLEAN, ty \in BOOLEAN,
                                  f \in BOOLEAN, size \in {"short", "medium", "long"}}
    \cup {Code(FALSE, FALSE, FALSE, FALSE, FALSE, "empty")}

SeverityTexts ==
    {"X", "critical error", "Severe", "MAJOR warning", "minor", "security", "crash", "performance"}

ReplyItems ==
    {IssueX, DescriptionD, SuggestionY, Line("", "Fix:", "Y"), Line("", "Note:", "N"),
     Line("see ", "Issue:", "X"), Line("", "", ""), CodeBlock(ContextLanguage, GoodCode),
     Line("", "Issue:", ""), CodeBlock("py", ShortCode)}

ReplyContents ==
    SeqsUpTo(ReplyItems, MaxLines)
    \cup SeqsUpTo({IssueX, SuggestionY}, MaxBlocks)
    \cup SeqsUpTo({CodeBlock(ContextLanguage, GoodCode), CodeBlock("", ShortCode)}, MaxBlocks)
    \cup {<<CodeBlock(ContextLanguage, code)>> : code \in Codes}
    \cup {<<Line(lead, marker, text)>> : lead \in {"", "minor"}, marker \in {"Issue:", "Note:"},
                                         text \in SeverityTexts}

\* the task types the agents hand to their parsers
AnalysisTypes == {"project_structure", "design_patterns", "scalability", "technology_stack",
                  "architecture_review", "general"}

DebugTypes == {"runtime_error", "logic_error", "performance_issue", "memory_leak", "async_issue",
               "type_error", "integration_issue", "security_vulnerability", "general"}

GenerationTypes == {"function", "class", "test", "completion", "optimization", "refactoring",
                    "boilerplate", "general"}

othersOfSynthesis == <<mode, excludedFiles, excludedDirectories, lastIndex, lastEval,
                       lastRun, now, requestTimestamps, requestCount, lastResponse,
                       agentStatus, runs, agentLog, callLog, suggestion, laterVars>>

Parsed(content, taskType, result) ==
    [kind |-> "parsed", content |-> content, taskType |-> taskType, result |-> result]

ArchitectParses ==
    /\ synthesis = NoSynthesis
    /\ \E content \in ReplyContents, analysisType \in AnalysisTypes :
          synthesis' = Parsed(content, analysisType,
                              parseArchitecturalResponse(content, analysisType))
    /\ UNCHANGED <<orchVars, othersOfSynthesis>>

BugHunterParses ==
    /\ synthesis = NoSynthesis
    /\ \E content \in ReplyContents, debugType \in DebugTypes :
          synthesis' = Parsed(content, debugType, parseDebuggingResponse(content, debugType))
    /\ UNCHANGED <<orchVars, othersOfSynthesis>>

CodeSmithParses ==
    /\ synthesis = NoSynthesis
    /\ \E content \in ReplyContents, generationType \in GenerationTypes :
          synthesis' = Parsed(content, generationType,
                              parseCodeGenerationResponse(content, generationType))
    /\ UNCHANGED <<orchVars, othersOfSynthesis>>

AgentResultTaken ==
    /\ synthesis # NoSynthesis
    /\ synthesis' = NoSynthesis
    /\ UNCHANGED <<orchVars, othersOfSynthesis>>

NextY == ArchitectParses \/ BugHunterParses \/ CodeSmithParses \/ AgentResultTaken

SpecSynthesis == Init /\ [][NextY]_vars

C23_InRange(confidence) ==
    /\ ~DoubleLess(confidence, Double(30))
    /\ ~DoubleLess(Double(95), confidence)

\* C23: every confidence value of a synthesis step, the overall confidence of
\* the AgentResult and the confidence of each of its code changes, lies in
\* [0.3, 0.95] inclusive for every reply and every task type.
C23_ConfidenceWithinBounds ==
    synthesis.kind = "parsed" =>
        /\ C23_InRange(synthesis.result.confidence)
        /\ \A k \in 1..Len(synthesis.result.codeChanges) :
              C23_InRange(synthesis.result.codeChanges[k].confidence)

\* C24: for a reply made of an 'Issue: X' line, a description line and a
\* 'Suggestion: Y' line, a parser yields exactly one analysis result, with
\* title X and the description line as description, and exactly one
\* suggestion, Y.
C24_IssueSuggestionRoundTrip ==
    (synthesis.kind = "parsed" /\ synthesis.content = <<IssueX, DescriptionD, SuggestionY>>) =>
        /\ synthesis.result.analysisResults =
              <<[title |-> "X", description |-> "D", severity |-> "info"]>>
        /\ synthesis.result.suggestions = <<"Y">>

C25_Unstructured(content) ==
    /\ content # <<>>
    /\ \A k \in 1..Len(content) :
          /\ content[k].kind = "line"
          /\ content[k].marker = ""
          /\ ~content[k].fence

\* C25: for a reply without any structured marker, a parser returns
\* success = true with empty analysisResults, suggestions, alternatives and
\* codeChanges, and the message of the result is the full text of the reply.
C25_UnstructuredReplyPreserved ==
    (synthesis.kind = "parsed" /\ C25_Unstructured(synthesis.content)) =>
        /\ synthesis.result.success
        /\ synthesis.result.analysisResults = <<>>
        /\ synthesis.result.suggestions = <<>>
        /\ synthesis.result.alternatives = <<>>
        /\ synthesis.result.codeChanges = <<>>
        /\ synthesis.result.message = Join(Lines(synthesis.content))

(***************************************************************************)
(* Specification SpecRetry: one sendRequest at a time, step by step: the   *)
(* checks before the first HTTP attempt, each attempt of                   *)
(* makeNonStreamingRequest, each backoff sleep, the return.                *)
(***************************************************************************)
NetworkError == [response |-> FALSE, status |-> 0]
StatusError(status) == [response |-> TRUE, status |-> status]

\* the errors client.post rejects with
HttpErrors == {NetworkError} \cup {StatusError(status) : status \in {400, 401, 429, 500, 503}}

\* variant: every error is retried
isRetryableError_Always(error) == TRUE

isRetryableError(error) ==
    IF ~error.response THEN TRUE
    ELSE error.status >= 500 \/ error.status = 429

\* Math.pow(2, retryCount) * 1000
BackoffDelay(retryCount) == 2^retryCount * 1000

getErrorMessage(error) ==
    IF error.response
    THEN IF error.status = 401 THEN "Authentication failed. Please check your API key."
         ELSE IF error.status = 429
         THEN "Rate limit exceeded. Please wait before making more requests."
         ELSE IF error.status >= 500 THEN "Qwen API server error. Please try again later."
         ELSE "HTTP " \o ToString(error.status) \o " error"
    ELSE "Unknown error occurred"

Returned(request, success, error) ==
    [request EXCEPT !.pc = "returned",
                    !.response = [kind |-> "response", success |-> success, error |-> error]]

\* sendRequest from its entry to the first client.post, or to its return
sendRequestBegins(prompt) ==
    LET request == Req(prompt, NoFile)
        r == canProcessRequest(request, mode, excludedFiles, excludedDirectories, lastIndex)
        recent == RecentTimestamps(requestTimestamps, now)
        begun == [IdleRequest EXCEPT !.prompt = prompt]
    IN  /\ http.pc = "idle"
        /\ lastIndex' = r.li
        /\ lastEval' = [kind |-> "request", input |-> request, text |-> prompt,
                        mode |-> mode, ok |-> r.ok]
        /\ IF ~SendRequestProceeds(r.ok)
           THEN /\ http' = Returned(begun, FALSE, "Request blocked by privacy settings")
                /\ UNCHANGED requestTimestamps
           ELSE IF ~(Len(recent) < MAX_REQUESTS_PER_MINUTE)
           THEN /\ http' = Returned(begun, FALSE,
                               "Rate limit exceeded. Please wait before making more requests.")
                /\ requestTimestamps' = recent
           ELSE /\ http' = [begun EXCEPT !.pc = "posting", !.attempts = 1]
                /\ requestTimestamps' = recent
        /\ UNCHANGED <<mode, excludedFiles, excludedDirectories, now, requestCount, lastResponse>>

\* client.post resolves: the attempt is counted, and sendRequest reads the
\* completion out of the response, which throws when the body has no choices
PostResolves(wellFormed) ==
    /\ http.pc = "posting"
    /\ requestCount' = requestCount + 1
    /\ requestTimestamps' = Append(requestTimestamps, now)
    /\ http' = IF wellFormed THEN Returned(http, TRUE, "")
               ELSE Returned(http, FALSE, "Cannot read properties of undefined")
    /\ UNCHANGED <<privVars, now, lastResponse>>

\* client.post rejects: the catch block of makeNonStreamingRequest sleeps and
\* retries, or rethrows to the catch block of sendRequest
PostRejects(error) ==
    /\ http.pc = "posting"
    /\ IF http.retryCount < retries /\ isRetryableError(error)
       THEN http' = [http EXCEPT !.pc = "sleeping",
                                 !.errors = Append(@, error),
                                 !.delays = Append(@, BackoffDelay(http.retryCount))]
       ELSE http' = Returned([http EXCEPT !.errors = Append(@, error)],
                             FALSE, getErrorMessage(error))
    /\ UNCHANGED <<privVars, now, requestTimestamps, requestCount, lastResponse>>

\* the sleep is over: makeNonStreamingRequest(payload, retryCount + 1)
SleepResolves ==
    /\ http.pc = "sleeping"
    /\ http' = [http EXCEPT !.pc = "posting", !.retryCount = @ + 1, !.attempts = @ + 1]
    /\ UNCHANGED <<privVars, now, requestTimestamps, requestCount, lastResponse>>

othersOfRetry == <<orchVars, mgrVars, agentVars, obsVars, audit, cacheVars, contextUpdates, attempted,
                   configuration>>

CallSendRequest ==
    /\ requestCount < MaxRequests
    /\ \E prompt \in Prompts : sendRequestBegins(prompt)
    /\ UNCHANGED othersOfRetry

HttpPostResolves ==
    \E wellFormed \in BOOLEAN : PostResolves(wellFormed) /\ UNCHANGED othersOfRetry

HttpPostRejects ==
    \E error \in HttpErrors : PostRejects(error) /\ UNCHANGED othersOfRetry

BackoffSleepResolves == SleepResolves /\ UNCHANGED othersOfRetry

ResponseTaken ==
    /\ http.pc = "returned"
    /\ http' = IdleRequest
    /\ lastResponse' = http.response
    /\ UNCHANGED <<privVars, now, requestTimestamps, requestCount, othersOfRetry>>

RetrySetPrivacyMode ==
    \E m \in {ENHANCED, MAXIMUM} : setPrivacyMode(m) /\ UNCHANGED othersOfPrivacy

NextR ==
    \/ CallSendRequest
    \/ HttpPostResolves
    \/ HttpPostRejects
    \/ BackoffSleepResolves
    \/ ResponseTaken
    \/ RetrySetPrivacyMode

SpecRetry == InitG /\ [][NextR]_vars

\* every HTTP attempt settles (the client has a timeout of 30 s) and every
\* sleep ends
SpecRetryLive ==
    SpecRetry /\ WF_vars(HttpPostResolves \/ HttpPostRejects) /\ WF_vars(BackoffSleepResolves)

C26_Retryable(error) == ~error.response \/ error.status >= 500 \/ error.status = 429

C26_Attempts ==
    LET n == http.attempts
        e == http.errors
        d == http.delays
    IN  /\ n <= retries + 1
        /\ Len(d) <= retries
        /\ \A k \in 1..Len(d) : d[k] = 2^(k - 1) * 1000 /\ C26_Retryable(e[k])
        /\ http.pc = "posting" => n = Len(d) + 1 /\ Len(e) = Len(d)
        /\ http.pc = "sleeping" => n = Len(d) /\ Len(e) = Len(d)
        /\ (http.pc = "returned" /\ n > 0) =>
              /\ n = Len(d) + 1
              /\ Len(e) = n =>
                    /\ ~http.response.success
                    /\ http.response.error # ""
                    /\ ~C26_Retryable(e[n]) \/ n = retries + 1
        /\ http.pc = "returned" => http.response.kind = "response"

\* C26: a completion request makes at most retries + 1 = 4 HTTP attempts; a
\* failed attempt is retried only when its error is retryable (no response,
\* status >= 500 or 429) and fewer than 3 retries were made, the k-th retry
\* after a delay of 2^k * 1000 ms; when the retries are exhausted or the error
\* is not retryable, sendRequest returns success = false with an error
\* message; and every request that was begun returns.
C26_BoundedRetries ==
    /\ []C26_Attempts
    /\ (http.pc \in {"posting", "sleeping"}) ~> (http.pc = "returned")

\* three retries after 1, 2 and 4 seconds, then the failure is returned
C26_Witness ==
    /\ http.pc = "returned"
    /\ http.attempts = 4
    /\ http.delays = <<1000, 2000, 4000>>
    /\ ~http.response.success

(***************************************************************************)
(* Specification SpecCache: DevMindManager's context cache: edits and      *)
(* their change events, editor changes, the analyses they start, and the   *)
(* commands that read the cache through getCurrentContext.  ContextData    *)
(* objects live in the heap and are held by reference: the cache, a        *)
(* command and an execution record can hold the same object.               *)
(***************************************************************************)
ANALYSIS_THROTTLE_MS == 200

\* Date.now(): the clock of the model starts at 0, long after the epoch
DateNow == 5 * ANALYSIS_THROTTLE_MS + now

TickMs == ANALYSIS_THROTTLE_MS \div 2

\* variant: no change event is throttled
Throttled_Never(time, last) == FALSE

\* the test at the head of onDocumentChange
Throttled(time, last) == time - last < ANALYSIS_THROTTLE_MS

\* the snapshot an analysis builds from a document
Snapshot(uri, version) ==
    [uri |-> uri, version |-> version, selectedText |-> "", command |-> "",
     refactorIntent |-> "", includes |-> FALSE]

AnalysisOf(uri, version) ==
    [kind |-> "document", uri |-> uri, version |-> version, command |-> "", stage |-> "",
     object |-> 0, agentType |-> ""]

\* onDocumentChange, up to the await of analyzeDocument
onDocumentChange(uri, docs) ==
    IF Throttled(DateNow, lastAnalysisTime)
    THEN /\ documents' = docs
         /\ UNCHANGED <<lastAnalysisTime, pending>>
    ELSE /\ lastAnalysisTime' = DateNow
         /\ pending' = pending \cup {AnalysisOf(uri, docs.text[uri])}
         /\ documents' = [docs EXCEPT !.rebuilds = Append(@, DateNow)]

\* the user edits a document and the editor fires the change event
DocumentEdited(uri) ==
    /\ documents.events < MaxEvents
    /\ onDocumentChange(uri, [documents EXCEPT !.text[uri] = @ + 1, !.edits = Append(@, DateNow),
                                               !.events = @ + 1])
    /\ UNCHANGED <<contextCache, heap, lastContext>>

\* onActiveEditorChange, up to the await of analyzeDocument
onActiveEditorChange(uri) ==
    /\ documents.active # uri
    /\ documents.events < MaxEvents
    /\ documents' = [documents EXCEPT !.active = uri, !.events = @ + 1]
    /\ pending' = pending \cup {AnalysisOf(uri, documents.text[uri])}
    /\ UNCHANGED <<contextCache, lastAnalysisTime, heap, lastContext>>

\* analyzeDocument resolves: contextCache.set(uri, context)
AnalysisCompletes(p) ==
    /\ p \in pending
    /\ p.kind = "document"
    /\ heap' = Append(heap, Snapshot(p.uri, p.version))
    /\ contextCache' = [uri \in DOMAIN contextCache \cup {p.uri} |->
                           IF uri = p.uri THEN Len(heap) + 1 ELSE contextCache[uri]]
    /\ pending' = pending \ {p}
    /\ UNCHANGED <<lastAnalysisTime, documents, lastContext>>

Commands == {"runAgent", "performCodeReview", "performRefactoring", "generateProjectSummary"}

\* the agent a command runs
AgentOf(command) ==
    CASE command = "performCodeReview" -> "bughunter"
      [] command = "performRefactoring" -> "codesmith"
      [] command = "generateProjectSummary" -> "docguru"
      [] OTHER -> "architect"

\* the assignments a command makes to the context it got from getCurrentContext
Assigned(object, command) ==
    CASE command = "performCodeReview" ->
            [object EXCEPT !.selectedText = "selection", !.command = "bug.review"]
      [] command = "performRefactoring" ->
            [object EXCEPT !.selectedText = "selection", !.refactorIntent = "intent"]
      [] command = "generateProjectSummary" ->
            [object EXCEPT !.includes = TRUE, !.command = "doc.generate"]
      [] OTHER -> object

Awaiting(kind, uri, version, command, stage, object) ==
    [kind |-> kind, uri |-> uri, version |-> version, command |-> command, stage |-> stage,
     object |-> object, agentType |-> AgentOf(command)]

Observed(uri, object, objects) ==
    [kind |-> "context", uri |-> uri, version |-> objects[object].version,
     text |-> documents.text[uri],
     settled |-> /\ \A i \in 1..Len(documents.edits) :
                        DateNow - documents.edits[i] >= ANALYSIS_THROTTLE_MS
                 /\ ~\E p \in pending : p.kind = "document"]

\* runAgent(agentType, context) once its getCurrentContext has returned the
\* object current: the merge { ...currentContext, ...context } when a context
\* was passed, the privacy check (the snapshot holds nothing sensitive), executeAgent
runAgentWith(command, uri, current, passed, objects, cache) ==
    IF passed = 0
    THEN /\ heap' = objects
         /\ pending' = (pending \ {p \in pending : p.kind = "full" /\ p.command = command})
                       \cup {Awaiting("execute", uri, 0, command, "", current)}
    ELSE /\ heap' = Append(objects, objects[passed])
         /\ pending' = (pending \ {p \in pending : p.kind = "full" /\ p.command = command})
                       \cup {Awaiting("execute", uri, 0, command, "", Len(objects) + 1)}

\* a command from its entry to its first await that does not resolve at once
CommandBegins(command) ==
    LET uri == documents.active
    IN  /\ ~\E p \in pending : p.kind \in {"full", "execute"}
        /\ documents.events < MaxEvents
        /\ documents' = [documents EXCEPT !.events = @ + 1]
        /\ IF uri \in DOMAIN contextCache
           THEN LET current == contextCache[uri]
                    objects == [heap EXCEPT ![current] = Assigned(@, command)]
                IN  /\ runAgentWith(command, uri, current,
                                    IF command = "runAgent" THEN 0 ELSE current, objects, contextCache)
                    /\ lastContext' = Observed(uri, current, heap)
                    /\ UNCHANGED contextCache
           ELSE /\ pending' = pending \cup
                      {Awaiting("full", uri, documents.text[uri], command,
                                IF command = "runAgent" THEN "runAgent" ELSE "command", 0)}
                /\ UNCHANGED <<contextCache, heap, lastContext>>
        /\ UNCHANGED <<lastAnalysisTime, history>>

\* analyzeFullContext resolves inside getCurrentContext: the snapshot is
\* cached and the command goes on
FullAnalysisCompletes(p) ==
    /\ p \in pending
    /\ p.kind = "full"
    /\ LET built == Len(heap) + 1
           cache == [uri \in DOMAIN contextCache \cup {p.uri} |->
                        IF uri = p.uri THEN built ELSE contextCache[uri]]
           created == Append(heap, Snapshot(p.uri, p.version))
           objects == [created EXCEPT ![built] = Assigned(@, p.command)]
       IN  /\ contextCache' = cache
           /\ runAgentWith(p.command, p.uri, built,
                           IF p.stage = "runAgent" THEN 0 ELSE built, objects, cache)
           /\ lastContext' = Observed(p.uri, built, created)
    /\ UNCHANGED <<lastAnalysisTime, documents, history>>

\* executeAgent returns to runAgent; the execution was recorded with the
\* context object it was given, unless the call returned before executing
ExecutionCompletes(p, outcome) ==
    /\ p \in pending
    /\ p.kind = "execute"
    /\ pending' = pending \ {p}
    /\ history' = IF outcome = "unrecorded" THEN history
                  ELSE Append(history, [agentType |-> p.agentType,
                                        success |-> outcome = "success",
                                        context |-> p.object])
    /\ lastContext' = NoContextRequest
    /\ UNCHANGED <<contextCache, lastAnalysisTime, documents, heap>>

othersOfCache == <<privVars, activeAgent, calls, chain, agents, mgrVars, requestTimestamps,
                   requestCount, lastResponse, agentVars, obsVars, http, audit, contextUpdates,
                   attempted, configuration>>

UserEdits ==
    \E uri \in Documents : DocumentEdited(uri) /\ UNCHANGED <<history, now, othersOfCache>>

UserChangesEditor ==
    \E uri \in Documents : onActiveEditorChange(uri) /\ UNCHANGED <<history, now, othersOfCache>>

DocumentAnalysisDone ==
    \E p \in pending : AnalysisCompletes(p) /\ UNCHANGED <<history, now, othersOfCache>>

UserRunsCommand ==
    \E command \in Commands : CommandBegins(command) /\ UNCHANGED <<now, othersOfCache>>

FullAnalysisDone ==
    \E p \in pending : FullAnalysisCompletes(p) /\ UNCHANGED <<now, othersOfCache>>

AgentExecutionDone ==
    \E p \in pending, outcome \in {"success", "failure", "unrecorded"} :
        ExecutionCompletes(p, outcome) /\ UNCHANGED <<now, othersOfCache>>

ClockTicks ==
    /\ now < MaxTicks * TickMs
    /\ now' = now + TickMs
    /\ UNCHANGED <<history, cacheVars, othersOfCache>>

NextC ==
    \/ UserEdits
    \/ UserChangesEditor
    \/ DocumentAnalysisDone
    \/ UserRunsCommand
    \/ FullAnalysisDone
    \/ AgentExecutionDone
    \/ ClockTicks

SpecCache == Init /\ [][NextC]_vars

\* C27: once the throttle window has passed since the last edit and no
\* rebuild is under way, the snapshot getCurrentContext returns for a
\* document was built from the document's current text.
C27_EditedTextServedAfterWindow ==
    (lastContext.kind = "context" /\ lastContext.settled)
        => lastContext.version = lastContext.text

\* a change event that comes less than the throttle window after the last
\* rebuild that onDocumentChange started
C28_EarlyChange ==
    /\ documents'.edits # documents.edits
    /\ documents.rebuilds # <<>>
    /\ DateNow - documents.rebuilds[Len(documents.rebuilds)] < ANALYSIS_THROTTLE_MS

C28_RebuildsApart ==
    \A i, j \in 1..Len(documents.rebuilds) :
        i < j => documents.rebuilds[j] - documents.rebuilds[i] >= ANALYSIS_THROTTLE_MS

\* C28: the rebuilds that onDocumentChange starts are at least 200 ms apart,
\* and a change event that comes earlier starts no analysis and leaves the
\* cache and lastAnalysisTime as they are.
C28_ThrottledRebuilds ==
    /\ []C28_RebuildsApart
    /\ [][C28_EarlyChange =>
            /\ UNCHANGED <<contextCache, lastAnalysisTime, pending, heap>>
            /\ documents'.rebuilds = documents.rebuilds]_vars

\* two rebuilds were started and one change event was throttled
C28_Witness ==
    /\ Len(documents.rebuilds) = 2
    /\ Len(documents.edits) = 3
    /\ \E i \in 1..3 : \A j \in 1..2 : documents.edits[i] # documents.rebuilds[j]

\* C29: while an entry of the cache is not replaced, the object it holds is
\* not modified, and the context object of an execution record that was
\* appended is not modified.
C29_SnapshotImmutable ==
    [][/\ \A uri \in DOMAIN contextCache :
              contextCache'[uri] = contextCache[uri]
                  => heap'[contextCache[uri]] = heap[contextCache[uri]]
       /\ \A k \in 1..Len(history) :
              heap'[history[k].context] = heap[history[k].context]]_vars

(***************************************************************************)
(* Specification SpecAudit: executeAgent with the audit trail's appends    *)
(* to the log file, which succeed or fail.                                 *)
(***************************************************************************)
\* variant: the error of a failed append leaves writeLogEntry
writeLogEntry_Rethrows(appended) == IF appended THEN "resolved" ELSE "rejected"

\* AuditTrail.writeLogEntry: the append is inside try, the catch block logs
\* the error to the console
writeLogEntry(appended) == IF appended THEN "resolved" ELSE "resolved"

\* AuditTrail.logAgentExecution: how the promise settles
logAgentExecution(enabled, appended) ==
    IF ~enabled THEN "resolved" ELSE writeLogEntry(appended)

\* the await of logAgentExecution in executeAgent settles: the call returns
\* its result; a rejection in the try block enters the catch block, a
\* rejection in the catch block leaves executeAgent
AwaitLogAgentExecution(call, settled) ==
    IF settled = "resolved" THEN [call EXCEPT !.pc = "returned"]
    ELSE IF call.raised = "" THEN CatchError(call, "append failed")
    ELSE [call EXCEPT !.pc = "returned", !.result = NoResult]

\* the appends of the call that is observed: the result the call had when
\* it first called logAgentExecution, and whether an append failed
Appending(c, enabled, appended) ==
    IF audit.kind = "append" /\ audit.call = c
    THEN [audit EXCEPT !.failed = @ \/ (enabled /\ ~appended)]
    ELSE [kind |-> "append", call |-> c, result |-> calls[c].result,
          failed |-> enabled /\ ~appended]

LogAgentExecutionSettlesWith(c, enabled, appended) ==
    /\ calls[c].pc = "logging"
    /\ LET call == AwaitLogAgentExecution(calls[c], logAgentExecution(enabled, appended))
       IN  /\ calls' = [calls EXCEPT ![c] = call]
           /\ history' = history \o Pushed(calls[c], call)
           /\ activeAgent' = IF call.pc = "returned" THEN None ELSE activeAgent
    /\ audit' = Appending(c, enabled, appended)
    /\ UNCHANGED <<chain, agents>>

othersOfAudit == <<mode, excludedFiles, excludedDirectories, lastIndex, lastEval,
                   lastRun, now, requestTimestamps, requestCount, lastResponse,
                   agentStatus, runs, agentLog, obsVars, http, cacheVars, contextUpdates,
                   attempted, configuration>>

AuditedCallExecuteAgent ==
    \E c \in CallIds, a \in HistoryAgents, cancelled \in BOOLEAN :
        executeAgent(c, a, C_code, cancelled) /\ UNCHANGED <<audit, othersOfAudit>>

AuditedAgentExecuteDone ==
    \E c \in CallIds, outcome \in {"success", "failure", "throw"} :
        AgentExecuteSettles(c, outcome) /\ UNCHANGED <<audit, othersOfAudit>>

AuditAppendSettles ==
    \E c \in CallIds, enabled \in BOOLEAN, appended \in BOOLEAN :
        LogAgentExecutionSettlesWith(c, enabled, appended) /\ UNCHANGED othersOfAudit

AuditedCallerTakesResult ==
    \E c \in CallIds :
        /\ TakeResult(c)
        /\ audit' = IF audit.kind = "append" /\ audit.call = c THEN NoAppend ELSE audit
        /\ UNCHANGED othersOfAudit

NextU ==
    \/ AuditedCallExecuteAgent
    \/ AuditedAgentExecuteDone
    \/ AuditAppendSettles
    \/ AuditedCallerTakesResult

SpecAudit == Init /\ [][NextU]_vars

\* C30: a call of executeAgent whose audit append failed returns the result
\* it had when it called logAgentExecution, and has pushed exactly one
\* record, the one of that result, which the history holds.
C30_AuditFailureDoesNotAbort ==
    \A c \in CallIds :
        (audit.kind = "append" /\ audit.call = c /\ audit.failed /\ calls[c].pc = "returned")
            => /\ calls[c].result = audit.result
               /\ calls[c].recorded = <<audit.result.success>>
               /\ \E k \in 1..Len(history) :
                      history[k] = Execution(calls[c].agentType, audit.result.success)

\* a call whose agent succeeded has returned success after a failed append
C30_Witness ==
    /\ audit.kind = "append"
    /\ audit.failed
    /\ calls[audit.call].pc = "returned"
    /\ calls[audit.call].result.success

(***************************************************************************)
(* Specification SpecChain: executeAgentChain with agents whose results    *)
(* carry contextUpdates.                                                   *)
(***************************************************************************)
UpdatesReturned ==
    {NoUpdates,
     ContextUpdates({}, T_none, NoFile),
     ContextUpdates({"surroundingCode"}, T_email, NoFile),
     ContextUpdates({"surroundingCode"}, T_pw, NoFile),
     ContextUpdates({"currentFile"}, T_none, P_env)}

othersOfChain == <<mode, excludedFiles, excludedDirectories, lastIndex, lastEval,
                   lastRun, now, requestTimestamps, requestCount, lastResponse,
                   agentStatus, runs, agentLog, obsVars, http, audit, cacheVars, attempted,
                   configuration>>

ChainedCallExecuteAgentChain ==
    \E agentChain \in SeqsUpTo(HistoryAgents, MaxChain + 1), context \in {C_code, C_blank} :
        /\ executeAgentChain(agentChain, context, FALSE)
        /\ UNCHANGED <<contextUpdates, othersOfChain>>

ChainedAgentExecuteDone ==
    \E outcome \in {"success", "failure", "throw"}, updates \in UpdatesReturned :
        /\ AgentExecuteSettles(ChainCall, outcome)
        /\ contextUpdates' = IF outcome = "throw" THEN NoUpdates ELSE updates
        /\ UNCHANGED othersOfChain

ChainedAuditLogDone ==
    LogAgentExecutionSettles(ChainCall) /\ UNCHANGED <<contextUpdates, othersOfChain>>

ChainedResumes == ChainResume /\ UNCHANGED <<contextUpdates, othersOfChain>>

ChainedTokenCancelled == CancelChain /\ UNCHANGED <<contextUpdates, othersOfChain>>

ChainedClearHistory == clearHistory /\ UNCHANGED <<contextUpdates, othersOfChain>>

ChainedCallerTakesResults == TakeChainResults /\ UNCHANGED <<contextUpdates, othersOfChain>>

NextN ==
    \/ ChainedCallExecuteAgentChain
    \/ ChainedAgentExecuteDone
    \/ ChainedAuditLogDone
    \/ ChainedResumes
    \/ ChainedTokenCancelled
    \/ ChainedClearHistory
    \/ ChainedCallerTakesResults

SpecChain == Init /\ [][NextN]_vars

\* the earlier agents of the chain whose result succeeded and set property
\* key in its contextUpdates
C31_Setters(i, key) ==
    {j \in 1..(i - 1) : /\ chain.results[j].success
                        /\ chain.updates[j].defined
                        /\ key \in chain.updates[j].keys}

\* the value of property key in the caller's context overlaid with the
\* updates of the agents before the i-th
C31_Expected(i, key) ==
    IF C31_Setters(i, key) = {} THEN chain.context[key]
    ELSE LET last == CHOOSE j \in C31_Setters(i, key) :
                        \A k \in C31_Setters(i, key) : k <= j
         IN  chain.updates[last][key]

C31_Overlaid ==
    \A i \in 1..Len(chain.passed) :
        /\ chain.passed[i].surroundingCode = C31_Expected(i, "surroundingCode")
        /\ chain.passed[i].currentFile = C31_Expected(i, "currentFile")
        /\ chain.passed[i].fields = chain.context.fields
        /\ chain.passed[i].numFiles = chain.context.numFiles

\* C31: each agent of a chain is passed the caller's context overlaid, in
\* order, with the contextUpdates of the earlier agents that succeeded, and
\* the caller's context stays as it was passed.
C31_ChainContextOverlay ==
    /\ []C31_Overlaid
    /\ [][(chain.pc # "idle" /\ chain'.pc # "idle") => chain'.context = chain.context]_vars

\* a third agent was called after two agents set the same property to
\* different values
C31_Witness ==
    /\ Len(chain.passed) = 3
    /\ chain.updates[1].keys = {"surroundingCode"}
    /\ chain.updates[2].keys = {"surroundingCode"}
    /\ chain.updates[1].surroundingCode # chain.updates[2].surroundingCode
    /\ chain.passed[3].surroundingCode = chain.updates[2].surroundingCode

\* the markers of the two line-oriented parsers: those that open an analysis
\* record, and all of them
C32_IssueMarkers(agentType) ==
    IF agentType = "architect" THEN {"issue:", "problem:"} ELSE {"issue:", "bug:", "problem:"}

C32_Markers(agentType) ==
    IF agentType = "architect"
    THEN {"issue:", "problem:", "recommendation:", "suggestion:", "alternative:"}
    ELSE {"issue:", "bug:", "problem:", "fix:", "solution:"}

C32_Has(line, markers) ==
    /\ ~line.fence
    /\ line.marker # ""
    /\ \E m \in markers : toLowerCase(<<line.marker>>) = <<m>>

\* a line that is empty, carries a marker or opens a code block
C32_NoDescription(line, agentType) ==
    \/ LineText(line) = ""
    \/ C32_Has(line, C32_Markers(agentType))
    \/ (agentType = "bughunter" /\ line.fence /\ line.tag # "")

\* the analysis records a reply should give: for each issue marker line, in
\* order, the title that follows the marker and the first line after it that
\* can be a description, up to the next issue marker line
C32_Expected(lines, agentType) ==
    LET at == {i \in 1..Len(lines) : C32_Has(lines[i], C32_IssueMarkers(agentType))}
        nth(k) == CHOOSE i \in at : Cardinality({j \in at : j <= i}) = k
        upTo(i) == IF \E j \in at : j > i
                   THEN (CHOOSE j \in at : j > i /\ \A h \in at : h > i => j <= h) - 1
                   ELSE Len(lines)
        candidates(i) == {j \in (i + 1)..upTo(i) : ~C32_NoDescription(lines[j], agentType)}
        described(i) == IF candidates(i) = {} THEN None
                        ELSE LineText(lines[CHOOSE j \in candidates(i) :
                                                \A h \in candidates(i) : j <= h])
    IN  [k \in 1..Cardinality(at) |->
            [title |-> IF lines[nth(k)].lead = "" THEN lines[nth(k)].text
                       ELSE LineText(lines[nth(k)]),
             description |-> described(nth(k))]]

\* C32: the analysis results of a line-oriented parser are one record per
\* issue marker line, in the order of the marker lines, each with the first
\* non-empty line without a marker that follows its marker as description.
C32_OneRecordPerMarker ==
    (synthesis.kind = "parsed" /\ synthesis.result.agentType \in {"architect", "bughunter"}) =>
        LET expected == C32_Expected(Lines(synthesis.content), synthesis.result.agentType)
            results == synthesis.result.analysisResults
        IN  /\ Len(results) = Len(expected)
            /\ \A k \in 1..Len(expected) :
                  /\ results[k].title = expected[k].title
                  /\ results[k].description = expected[k].description

\* the severity the keywords of a marker line stand for
C33_Inferred(words) ==
    IF words \cap {"critical", "severe"} # {} THEN "critical"
    ELSE IF words \cap {"error", "major"} # {} THEN "error"
    ELSE IF words \cap {"warning", "minor"} # {} THEN "warning"
    ELSE "info"

\* C33: the severity of the analysis record that a marker line gives is
\* critical if the line contains 'critical' or 'severe', else error if it
\* contains 'error' or 'major', else warning if it contains 'warning' or
\* 'minor', else info, for every parser.
C33_SeverityByKeyword ==
    (/\ synthesis.kind = "parsed"
     /\ Len(synthesis.content) = 1
     /\ Len(synthesis.result.analysisResults) = 1) =>
        LET line == synthesis.content[1]
        IN  synthesis.result.analysisResults[1].severity =
                C33_Inferred(WordsOf(line.lead) \cup WordsOf(line.text))

\* the text between the fences of each code block of a reply, in order
RECURSIVE C34_Blocks(_)
C34_Blocks(content) ==
    IF content = <<>> THEN <<>>
    ELSE (IF Head(content).kind = "code" THEN <<CodeText(Head(content).code)>> ELSE <<>>)
         \o C34_Blocks(Tail(content))

\* C34: the code changes of a reply are one per fenced code block, with or
\* without language tag, in order, each with the text between the fences of
\* its block as newText; no text outside the fences becomes a newText.
C34_OneChangePerFence ==
    (synthesis.kind = "parsed" /\ synthesis.result.agentType \in {"codesmith", "bughunter"}) =>
        LET blocks == C34_Blocks(synthesis.content)
            changes == synthesis.result.codeChanges
        IN  /\ Len(changes) = Len(blocks)
            /\ \A k \in 1..Len(blocks) : changes[k].newText = blocks[k]

(***************************************************************************)
(* Specification SpecRate: sendRequest calls one after another with no     *)
(* time between them, each making one HTTP attempt that succeeds or fails  *)
(* with an error that is not retried.                                      *)
(***************************************************************************)
MaxAttempts == MAX_REQUESTS_PER_MINUTE + 1

othersOfRate == <<history, activeAgent, calls, chain, agents, lastRun,
                  agentVars, obsVars, http, audit, cacheVars, contextUpdates, configuration>>

RateSendRequest ==
    /\ Len(attempted) < MaxAttempts
    /\ \E last \in {"ok", "fatal"} :
          /\ sendRequest(T_plain, 0, last)
          /\ attempted' = attempted \o [k \in 1..lastResponse'.attempts |-> now]
    /\ UNCHANGED othersOfRate

\* the caller reads the response
RateResponseTaken ==
    /\ lastResponse # NoResponse
    /\ lastResponse' = NoResponse
    /\ UNCHANGED <<privVars, now, requestTimestamps, requestCount, attempted, othersOfRate>>

NextT == RateSendRequest \/ RateResponseTaken

SpecRate == Init /\ [][NextT]_vars

\* C35: at most MAX_REQUESTS_PER_MINUTE HTTP attempts, failed ones included,
\* are issued within the 60 seconds up to now.
C35_AttemptsWithinLimit ==
    Cardinality({k \in 1..Len(attempted) : attempted[k] > now - RateWindowMs})
        <= MAX_REQUESTS_PER_MINUTE

C37_ActiveAgentTracksCalls ==
    /\ (activeAgent = None) <=> (InFlight = {})
    /\ InFlight # {} => \E c \in InFlight : activeAgent = calls[c].agentType

(***************************************************************************)
(* The configuration listener: extension.ts setupEventListeners and        *)
(* DevMindManager.onConfigurationChange.                                   *)
(***************************************************************************)

ApiUrls == {"http://localhost:8000", "http://qwen.internal:8000"}

DevmindSettings == [privacyMode : BOOLEAN, qwenApiUrl : ApiUrls]

\* STANDARD < ENHANCED < MAXIMUM
Strictness(m) ==
    CASE m = STANDARD -> 0
      [] m = ENHANCED -> 1
      [] m = MAXIMUM -> 2

\* config.get("privacyMode", true) ? PrivacyMode.ENHANCED : PrivacyMode.STANDARD
ConfiguredMode(config) == IF config.privacyMode THEN ENHANCED ELSE STANDARD

\* AgentOrchestrator.updateConfiguration: the provider takes the new URL; no
\* agent class defines updateConfiguration
updateConfiguration(config) ==
    configuration'.llmProvider = [apiUrl |-> config.qwenApiUrl]

onConfigurationChange ==
    LET config == configuration'.devmind
    IN  /\ setPrivacyMode(ConfiguredMode(config))
        /\ updateConfiguration(config)

\* the user saves settings of section 'devmind'; the listener runs the handler
onDidChangeConfiguration ==
    \E settings \in DevmindSettings :
        /\ settings # configuration.devmind
        /\ configuration' \in [devmind : {settings}, llmProvider : [apiUrl : ApiUrls]]
        /\ onConfigurationChange
        /\ UNCHANGED <<history, activeAgent, calls, chain, agents, lastRun,
                       now, requestTimestamps, requestCount, lastResponse,
                       agentStatus, runs, agentLog, callLog, suggestion, synthesis,
                       http, audit, cacheVars, contextUpdates, attempted>>

NextF ==
    \/ onDidChangeConfiguration
    \/ CallSetPrivacyMode
    \/ CallAddExcludedFile
    \/ CallAddExcludedDirectory
    \/ CallRemoveExcludedFile
    \/ CallRemoveExcludedDirectory
    \/ CallCanProcessContext
    \/ CallCanProcessRequest

SpecConfig == Init /\ [][NextF]_vars

PrivacySettingLowered ==
    Strictness(ConfiguredMode(configuration'.devmind))
        < Strictness(ConfiguredMode(configuration.devmind))

\* C38: a configuration-change event leaves the privacy mode at least as
\* strict as it was, unless the privacy setting itself was changed to a less
\* strict value; and each of the three modes can be selected through the
\* configuration.
C38_ConfigurationKeepsStrictness ==
    /\ [][configuration'.devmind # configuration.devmind
            => (Strictness(mode') >= Strictness(mode) \/ PrivacySettingLowered)]_vars
    /\ [](\A m \in PrivacyMode : ENABLED (onDidChangeConfiguration /\ mode' = m))

(***************************************************************************)
(* The Context Snapshot Builder (ContextAnalyzer) and the commands that    *)
(* run an agent on the snapshot getCurrentContext returns.                 *)
(***************************************************************************)

\* the fields of a snapshot that are truthy when a workspace folder is open;
\* no function of ContextAnalyzer assigns language
ProjectFields ==
    {"projectRoot", "projectStructure", "dependencies", "configFiles", "architecturalPatterns"}

\* isActive: the document is the one of the active text editor
analyzeImmediateContext(isActive, fileName, code) ==
    IF ~isActive
    THEN [currentFile |-> NoFile, surroundingCode |-> T_none]
    ELSE [currentFile |-> fileName, surroundingCode |-> code]

\* numFiles: the files getProjectStructure finds under the project root
analyzeFullContext(isActive, fileName, code, numFiles) ==
    LET immediateContext == analyzeImmediateContext(isActive, fileName, code)
    IN  Ctx(immediateContext.currentFile, immediateContext.surroundingCode,
            ProjectFields, numFiles)

\* getBasicProjectContext: a project structure without files
analyzeDocument(isActive, fileName, code) ==
    LET immediateContext == analyzeImmediateContext(isActive, fileName, code)
    IN  Ctx(immediateContext.currentFile, immediateContext.surroundingCode,
            ProjectFields, 0)

MaxFiles == 2

\* the snapshots of an active document with code, in a project with files
BuilderSnapshots ==
    {analyzeFullContext(TRUE, f, t, n) : f \in Paths, t \in {T_plain, T_pw}, n \in 1..MaxFiles}
    \cup {analyzeDocument(TRUE, f, t) : f \in Paths, t \in {T_plain, T_pw}}

othersOfServe == <<now, requestTimestamps, requestCount, lastResponse,
                   agentVars, obsVars, laterVars>>

\* a command runs an agent; getCurrentContext returns a snapshot of the cache
ServedRunAgent ==
    \E a \in DOMAIN agents, snapshot \in BuilderSnapshots :
        runAgent(DirectCall, a, snapshot) /\ UNCHANGED othersOfServe

ServedAgentExecuteDone ==
    \E outcome \in {"success", "failure"} :
        AgentExecuteSettles(DirectCall, outcome) /\ UNCHANGED othersOfOrch

ServedAuditLogDone == LogAgentExecutionSettles(DirectCall) /\ UNCHANGED othersOfOrch

ServedRunAgentDone == RunAgentResumes(DirectCall) /\ UNCHANGED othersOfOrch

ServedClearHistory == clearHistory /\ UNCHANGED othersOfOrch

NextV ==
    \/ ServedRunAgent
    \/ ServedAgentExecuteDone
    \/ ServedAuditLogDone
    \/ ServedRunAgentDone
    \/ ServedClearHistory

SpecServe == Init /\ [][NextV]_vars

\* a runAgent call for agent type a can start now and reach agent.execute
CanReachExecute(a) ==
    ENABLED (/\ ServedRunAgent
             /\ calls'[DirectCall].agentType = a
             /\ calls'[DirectCall].executeCalls > 0)

\* C39: for every registered agent type some snapshot of the Context Snapshot
\* Builder passes the agent's validateContext: whenever a command may start
\* a runAgent call, a call served with such a snapshot can reach the
\* execute of each registered agent type.
C39_EveryAgentReachable ==
    (calls[DirectCall].pc = "idle" /\ HistoryHasRoom) =>
        \A a \in DOMAIN agents : CanReachExecute(a)

====
